---- MODULE Spec2Model ----
(***************************************************************************)
(* A model of the LLM Benchmark Arena: the dashboard's runBenchmark, the   *)
(* provider endpoint POST /api/benchmark, the snapshot cache endpoints     *)
(* GET/POST /api/results and the scheduled (cron) handler with runModel.   *)
(*                                                                         *)
(* JavaScript values.  A value that may be undefined/null is a sequence:   *)
(* <<>> is undefined, <<v>> is the value v.  Strings are TLA+ strings and  *)
(* template strings are built with \o.  Time is counted in seconds.        *)
(***************************************************************************)
EXTENDS Integers, Sequences, FiniteSets, TLC

VARIABLES
    env,        \* process.env: BENCHMARK_PASSWORD, CRON_SECRET, REDIS_URL
    now,        \* the clock (seconds)
    req,        \* POST /api/benchmark requests: id -> handler state
    upstream,   \* log of the calls made to provider endpoints
    store,      \* the Redis keys 'benchmark-results' and 'benchmark-timestamp'
    cacheReq,   \* GET/POST /api/results requests: id -> handler state
    results,    \* page state: key -> BenchmarkResult
    lastUpdated,        \* page state
    loading,            \* page state
    progress,           \* page state: {current, total}
    benchmarkPassword,  \* page state
    loaded,     \* whether loadCachedResults has consumed its answer
    run,        \* the runBenchmark call in progress (its closure)
    cron,       \* the scheduled handler's request
    job,        \* the runModel calls of the scheduled handler: key -> state
    actors      \* who sends requests: the dashboard page, the scheduler

apiVars == <<req, upstream>>
cacheVars == <<store, cacheReq>>
pageVars == <<results, lastUpdated, loading, progress, benchmarkPassword,
              loaded, run>>
cronVars == <<cron, job>>
vars == <<env, now, req, upstream, store, cacheReq, results, lastUpdated,
          loading, progress, benchmarkPassword, loaded, run, cron, job,
          actors>>

----------------------------------------------------------------------------
(* Bounds of the model *)

\* how many seconds may pass unnoticed between two readings of the clock
MaxElapse == 1

\* how many models of each category the configuration is cut to
MaxModelsPerCategory == 2

\* how many manual runs the page starts
MaxRuns == 1

\* how many requests reach the cache endpoints in the cache specification
MaxCacheRequests == 2

(* Program constants *)

\* prediction.retry_after || 10
DefaultRetryAfter == 10

----------------------------------------------------------------------------
(* JavaScript helpers *)

Undefined == <<>>
Some(v) == <<v>>

\* truthiness of an optional string: undefined, null and "" are falsy
TruthyStr(x) == x # Undefined /\ x[1] # ""

\* truthiness of an optional JSON text: a JSON text is never the empty string
TruthyJson(x) == x # Undefined

\* truthiness of an optional number: undefined and 0 are falsy
TruthyNum(x) == x # Undefined /\ x[1] # 0

\* a || b on optional strings
OrStr(a, b) == IF TruthyStr(a) THEN a ELSE b

\* `${x}` of an optional string
Template(x) == IF x = Undefined THEN "undefined" ELSE x[1]

\* s.includes(t)
Includes(s, t) ==
    \E i \in 1..(Len(s) - Len(t) + 1) : SubSeq(s, i, i + Len(t) - 1) = t

\* s.startsWith(t)
StartsWith(s, t) == Len(s) >= Len(t) /\ SubSeq(s, 1, Len(t)) = t

Max(a, b) == IF a >= b THEN a ELSE b

----------------------------------------------------------------------------
(* The clock.  Time is read by Date.now() and when a timer fires; the      *)
(* clock of the model advances where it is read: t is a possible reading   *)
(* when at most MaxElapse seconds passed since the last one (or since the  *)
(* timer was due).  A timer is set at the last reading: the time that has  *)
(* passed since then shows when it fires.                                  *)

Elapse(t) == t \in now..(now + MaxElapse)

\* a timer set at `from` for `delay` seconds can fire at time t
TimerFired(from, delay, t) == t >= from + delay

\* the readings at which a timer set at `from` for `delay` seconds may fire
FiringTimes(from, delay) == now..(Max(now, from + delay) + MaxElapse)

----------------------------------------------------------------------------
(* Upstream documents *)

\* prediction.output: absent, a string, an array of strings, or an object
\* whose url field is v (<<>> when the object has no url)
NoOutput == [t |-> "absent", v |-> <<>>]
OutString(s) == [t |-> "string", v |-> <<s>>]
OutArray(a) == [t |-> "array", v |-> a]
OutObject(u) == [t |-> "object", v |-> u]

UrlA == "https://replicate.delivery/a.jpg"
UrlB == "https://replicate.delivery/b.jpg"

OutputShapes ==
    { NoOutput, OutString(UrlA), OutString(""), OutArray(<<>>),
      OutArray(<<UrlA, UrlB>>), OutObject(<<UrlA>>), OutObject(<<>>) }

ThrottledDetail == "Request was throttled. Expected available in 5 seconds."

\* The JSON number 429 in the status field is written "N429": a prediction's
\* own status is a string such as "succeeded" and never equals it.
\* The documents Replicate answers a throttled request with: an error
\* document, which carries no prediction output.
ThrottleDocs ==
    { [status |-> s, detail |-> d, retry_after |-> ra,
       error |-> Undefined, output |-> NoOutput] :
        s \in {Undefined, Some("N429")},
        d \in {Undefined, Some(ThrottledDetail)},
        ra \in {Undefined, Some(0), Some(1), Some(5)} }
    \ { [status |-> Undefined, detail |-> Undefined, retry_after |-> ra,
         error |-> Undefined, output |-> NoOutput] :
        ra \in {Undefined, Some(0), Some(1), Some(5)} }

\* The prediction documents (and other error documents) Replicate answers
PredictionDocs ==
    { [status |-> s, detail |-> d, retry_after |-> Undefined,
       error |-> e, output |-> o] :
        s \in {Undefined, Some("succeeded"), Some("failed"), Some("processing")},
        d \in {Undefined, Some("Invalid version or not permitted")},
        e \in {Undefined, Some("NSFW content detected")},
        o \in OutputShapes }

ReplicateDocs == ThrottleDocs \cup PredictionDocs

\* prediction.status === 429 || prediction.detail?.includes('throttled')
IsThrottled(p) ==
    \/ p.status = Some("N429")
    \/ (p.detail # Undefined /\ Includes(p.detail[1], "throttled"))

\* const retryAfter = prediction.retry_after || 10
RetryAfter(p) ==
    IF TruthyNum(p.retry_after) THEN p.retry_after[1] ELSE DefaultRetryAfter

\* setTimeout(resolve, (retryAfter + 1) * 1000), in seconds
RetryDelay(p) == RetryAfter(p) + 1

\* truthiness of prediction.output
OutputTruthy(o) ==
    CASE o.t = "absent" -> FALSE
      [] o.t = "string" -> o.v[1] # ""
      [] OTHER -> TRUE

----------------------------------------------------------------------------
(* Outcomes of an adapter: a returned value or a thrown Error *)

Return(out, ty) == [threw |-> FALSE, output |-> out, type |-> ty, message |-> ""]
Throw(msg) == [threw |-> TRUE, output |-> Undefined, type |-> "", message |-> msg]

\* The network failure of a fetch: it rejects with this message
FetchFailed == "fetch failed"

----------------------------------------------------------------------------
(* Buffer.from(bytes).toString('base64') *)

Base64Alphabet ==
    "ABCDEFGHIJKLMNOPQRSTUVWXYZabcdefghijklmnopqrstuvwxyz0123456789+/"

Base64Char(n) == SubSeq(Base64Alphabet, n + 1, n + 1)

RECURSIVE Base64(_)
Base64(bytes) ==
    IF Len(bytes) = 0 THEN ""
    ELSE IF Len(bytes) = 1 THEN
        Base64Char(bytes[1] \div 4) \o Base64Char((bytes[1] % 4) * 16) \o "=="
    ELSE IF Len(bytes) = 2 THEN
        Base64Char(bytes[1] \div 4)
        \o Base64Char((bytes[1] % 4) * 16 + bytes[2] \div 16)
        \o Base64Char((bytes[2] % 16) * 4) \o "="
    ELSE
        Base64Char(bytes[1] \div 4)
        \o Base64Char((bytes[1] % 4) * 16 + bytes[2] \div 16)
        \o Base64Char((bytes[2] % 16) * 4 + bytes[3] \div 64)
        \o Base64Char(bytes[3] % 64)
        \o Base64(SubSeq(bytes, 4, Len(bytes)))

\* image bodies a download can deliver
ImageBodies == { <<>>, <<255, 216, 255>>, <<137, 80>> }

----------------------------------------------------------------------------
(* POST /api/benchmark: the provider adapters *)

\* variant: the comparison of the passwords is turned around
UnauthorizedInverted(type, requiredPassword, password) ==
    /\ type = "image"
    /\ TruthyStr(requiredPassword)
    /\ password = requiredPassword

\* variant: the password is checked for every type of request
UnauthorizedAnyType(type, requiredPassword, password) ==
    /\ TruthyStr(requiredPassword)
    /\ password # requiredPassword

\* if (type === 'image' && requiredPassword && password !== requiredPassword)
Unauthorized(type, requiredPassword, password) ==
    /\ type = "image"
    /\ TruthyStr(requiredPassword)
    /\ password # requiredPassword

\* the models API endpoint of Replicate
ReplicateUrl(model) ==
    "https://api.replicate.com/v1/models/" \o model \o "/predictions"

\* the endpoint a provider call goes to, by request type and provider;
\* <<>> when the handler has no branch for the provider
ProviderUrl(type, provider, model) ==
    IF type = "image" THEN
        CASE provider = "together" ->
                Some("https://api.together.xyz/v1/images/generations")
          [] provider = "replicate" -> Some(ReplicateUrl(model))
          [] provider = "huggingface" -> Some("hf.textToImage")
          [] OTHER -> Undefined
    ELSE
        CASE provider = "groq" -> Some("groq.chat.completions.create")
          [] provider = "huggingface" -> Some("hf.chatCompletion")
          [] provider = "openai" ->
                Some("https://api.openai.com/v1/chat/completions")
          [] provider = "together" ->
                Some("https://api.together.xyz/v1/chat/completions")
          [] OTHER -> Undefined

\* imageUrl from prediction.output (a truthy output)
ReplicateImageUrl(o) ==
    CASE o.t = "string" -> Some(o.v[1])
      [] o.t = "array" -> IF Len(o.v) = 0 THEN Undefined ELSE Some(o.v[1])
      [] o.t = "object" -> IF TruthyStr(o.v) THEN Some(o.v[1]) ELSE Some("")
      [] OTHER -> Some("")

\* what the handler does with the final prediction document
ReplicateFinish(p) ==
    IF TruthyStr(p.error) THEN Throw(p.error[1])
    ELSE IF p.status = Some("failed") THEN Throw("Replicate prediction failed")
    ELSE IF OutputTruthy(p.output)
         THEN Return(ReplicateImageUrl(p.output), "image")
         ELSE Throw("No output received from Replicate")

\* Together image documents: data.data[0].b64_json, data.data[0].url
TogetherImageDocs ==
    { [b64_json |-> b, url |-> u] :
        b \in {Undefined, Some(Base64(<<137, 80>>))},
        u \in {Undefined, Some(UrlA)} }

TogetherImage(d) ==
    IF TruthyStr(d.b64_json)
    THEN Return(Some("data:image/png;base64," \o d.b64_json[1]), "image")
    ELSE IF TruthyStr(d.url) THEN Return(d.url, "image")
    ELSE Return(Some(""), "image")

\* hf.textToImage answers a string or a Blob
HfImageReplies ==
    { [t |-> "string", s |-> x, bytes |-> <<>>] :
        x \in {"data:image/png;base64,iVA=", "iVA="} }
    \cup { [t |-> "blob", s |-> "", bytes |-> b] : b \in ImageBodies }

HfImage(r) ==
    IF r.t = "string"
    THEN Return(Some(IF StartsWith(r.s, "data:") THEN r.s
                     ELSE "data:image/png;base64," \o r.s), "image")
    ELSE Return(Some("data:image/png;base64," \o Base64(r.bytes)), "image")

\* chat completions: the call fails with a message, or answers a document
\* whose first choice's message content is `content`
ChatReplies ==
    { [failed |-> FALSE, content |-> c, message |-> ""] :
        c \in {Undefined, Some(""), Some("<html>clock</html>")} }
    \cup { [failed |-> TRUE, content |-> Undefined, message |-> m] :
        m \in {"429 rate limit exceeded"} }

\* result = response.choices[0]?.message?.content || ""
ChatResult(r) ==
    IF r.failed THEN Throw(r.message)
    ELSE Return(OrStr(r.content, Some("")), "text")

\* what the providers can answer, per specification
FullWorld ==
    [replicate |-> ReplicateDocs, together |-> TogetherImageDocs,
     hfimage |-> HfImageReplies, chat |-> ChatReplies, netfail |-> {TRUE},
     images |-> ImageBodies, contentTypes |-> {Undefined, Some("image/png")}]

\* the outcomes of the adapters that make one provider call (every adapter
\* but Replicate's, whose answers ApiUpstream and ApiRetryRespond handle)
AdapterOutcomes(body, W) ==
    IF body.type = "image" THEN
        CASE body.provider = "together" ->
                { TogetherImage(d) : d \in W.together }
                \cup { Throw(FetchFailed) : x \in W.netfail }
          [] body.provider = "huggingface" ->
                { HfImage(r) : r \in W.hfimage }
                \cup { Throw(FetchFailed) : x \in W.netfail }
          [] OTHER -> {}
    ELSE { ChatResult(r) : r \in W.chat }

\* NextResponse.json(...) of an outcome; the catch answers 500 {error}
ApiResponse(outcome) ==
    IF outcome.threw
    THEN [status |-> 500, output |-> Undefined, type |-> Undefined,
          error |-> Some(outcome.message)]
    ELSE [status |-> 200, output |-> outcome.output,
          type |-> Some(outcome.type), error |-> Undefined]

Response401 ==
    [status |-> 401, output |-> Undefined, type |-> Undefined,
     error |-> Some("Invalid password")]

NoResponse ==
    [status |-> 0, output |-> Undefined, type |-> Undefined, error |-> Undefined]

\* a request as it arrives at the handler
NewRequest(body) ==
    [body |-> body, pc |-> "received", prediction |-> Undefined,
     sleptFrom |-> 0, delay |-> 0, retriedAt |-> 0, resp |-> NoResponse]

\* the n-th provider call made for request or runModel call k
Call(k, n, url, prompt) ==
    [id |-> k, n |-> n, url |-> url, prompt |-> prompt]

\* the provider calls made so far for request or runModel call k
CallsOf(k) == { c \in upstream : c.id = k }

\* lines 9-65 and 122-199: the password check, then the provider call
ApiReceive(k) ==
    /\ k \in DOMAIN req
    /\ req[k].pc = "received"
    /\ LET b == req[k].body
           url == ProviderUrl(b.type, b.provider, b.model)
       IN IF Unauthorized(b.type, env.BENCHMARK_PASSWORD, b.password)
          THEN /\ req' = [req EXCEPT ![k].pc = "done", ![k].resp = Response401]
               /\ UNCHANGED upstream
          ELSE IF url = Undefined
          THEN /\ req' = [req EXCEPT ![k].pc = "done",
                            ![k].resp = ApiResponse(Return(Some(""),
                                IF b.type = "image" THEN "image" ELSE "text"))]
               /\ UNCHANGED upstream
          ELSE /\ req' = [req EXCEPT ![k].pc = "upstream"]
               /\ upstream' = upstream \cup {Call(k, 1, url[1], b.prompt)}
    /\ UNCHANGED <<actors, env, now, cacheVars, pageVars, cronVars>>

\* lines 67-76: the provider's answer; a throttled Replicate answer starts
\* the wait, any other answer settles the request
ApiUpstream(k, W) ==
    /\ k \in DOMAIN req
    /\ req[k].pc = "upstream"
    /\ LET b == req[k].body
       IN IF b.type = "image" /\ b.provider = "replicate"
          THEN \/ \E p \in W.replicate :
                    req' = IF IsThrottled(p)
                           THEN [req EXCEPT ![k].pc = "sleeping",
                                            ![k].prediction = Some(p),
                                            ![k].sleptFrom = now,
                                            ![k].delay = RetryDelay(p)]
                           ELSE [req EXCEPT ![k].pc = "done",
                                            ![k].prediction = Some(p),
                                            ![k].resp =
                                                ApiResponse(ReplicateFinish(p))]
               \/ \E x \in W.netfail :
                    req' = [req EXCEPT ![k].pc = "done",
                                       ![k].resp = ApiResponse(Throw(FetchFailed))]
          ELSE \E o \in AdapterOutcomes(b, W) :
                    req' = [req EXCEPT ![k].pc = "done", ![k].resp = ApiResponse(o)]
    /\ UNCHANGED <<actors, env, now, upstream, cacheVars, pageVars, cronVars>>

\* lines 76-94: after the wait, the request is sent once more
ApiRetry(k) ==
    /\ k \in DOMAIN req
    /\ req[k].pc = "sleeping"
    /\ \E t \in FiringTimes(req[k].sleptFrom, req[k].delay) :
        /\ TimerFired(req[k].sleptFrom, req[k].delay, t)
        /\ now' = t
        /\ req' = [req EXCEPT ![k].pc = "retrying", ![k].retriedAt = t]
    /\ upstream' = upstream \cup
          {Call(k, Cardinality(CallsOf(k)) + 1,
                ReplicateUrl(req[k].body.model), req[k].body.prompt)}
    /\ UNCHANGED <<actors, env, cacheVars, pageVars, cronVars>>

\* variant: a throttled answer to the retry starts another wait
ApiRetryRespondLoop(k, W) ==
    /\ k \in DOMAIN req
    /\ req[k].pc = "retrying"
    /\ \/ \E p \in W.replicate :
            req' = IF IsThrottled(p)
                   THEN [req EXCEPT ![k].pc = "sleeping",
                                    ![k].prediction = Some(p),
                                    ![k].sleptFrom = now,
                                    ![k].delay = RetryDelay(p)]
                   ELSE [req EXCEPT ![k].pc = "done", ![k].prediction = Some(p),
                                    ![k].resp = ApiResponse(ReplicateFinish(p))]
       \/ \E x \in W.netfail :
            req' = [req EXCEPT ![k].pc = "done",
                               ![k].resp = ApiResponse(Throw(FetchFailed))]
    /\ UNCHANGED <<actors, env, now, upstream, cacheVars, pageVars, cronVars>>

\* lines 95-120 and 145: the answer to the retry is final
ApiRetryRespond(k, W) ==
    /\ k \in DOMAIN req
    /\ req[k].pc = "retrying"
    /\ \/ \E p \in W.replicate :
            req' = [req EXCEPT ![k].pc = "done", ![k].prediction = Some(p),
                               ![k].resp = ApiResponse(ReplicateFinish(p))]
       \/ \E x \in W.netfail :
            req' = [req EXCEPT ![k].pc = "done",
                               ![k].resp = ApiResponse(Throw(FetchFailed))]
    /\ UNCHANGED <<actors, env, now, upstream, cacheVars, pageVars, cronVars>>

----------------------------------------------------------------------------
(* Number <-> string, JSON <-> string *)

Digits == "0123456789"

\* n.toString() of a non-negative integer
RECURSIVE NumToString(_)
NumToString(n) ==
    IF n < 10 THEN SubSeq(Digits, n + 1, n + 1)
    ELSE NumToString(n \div 10) \o SubSeq(Digits, (n % 10) + 1, (n % 10) + 1)

DigitValue(c) == CHOOSE d \in 0..9 : SubSeq(Digits, d + 1, d + 1) = c

\* variant: only the first digit is read
ParseIntFirstDigit(s) == DigitValue(SubSeq(s, 1, 1))

\* parseInt(s) of a string of decimal digits
RECURSIVE ParseInt(_)
ParseInt(s) ==
    IF Len(s) = 1 THEN DigitValue(s)
    ELSE 10 * ParseInt(SubSeq(s, 1, Len(s) - 1))
         + DigitValue(SubSeq(s, Len(s), Len(s)))

\* JSON.stringify(v) of a JSON value: the string that JSON.parse reads back
\* as v.  The string is kept as the record [json |-> v].
JSONStringify(v) == [json |-> v]
JSONParse(s) == s.json

----------------------------------------------------------------------------
(* GET and POST /api/results: the snapshot cache *)

EmptyStore == [results |-> Undefined, timestamp |-> Undefined]

\* the answers of the two handlers; raised marks an exception leaving the
\* handler
NoCacheResponse ==
    [sent |-> FALSE, raised |-> FALSE, results |-> Undefined,
     timestamp |-> Undefined, message |-> "", success |-> FALSE,
     persisted |-> FALSE]

GetAbsent(msg) ==
    [NoCacheResponse EXCEPT !.sent = TRUE, !.message = msg]

GetFound(r, t) ==
    [NoCacheResponse EXCEPT !.sent = TRUE, !.results = r, !.timestamp = t]

SetAnswer(p) ==
    [NoCacheResponse EXCEPT !.sent = TRUE, !.success = TRUE, !.persisted = p]

Raised == [NoCacheResponse EXCEPT !.raised = TRUE]

\* a request as it arrives: body is {results, timestamp} of a POST; fault
\* is what console.error reports, the step that failed ("" if none did)
NewCacheRequest(kind, body) ==
    [kind |-> kind, body |-> body, pc |-> "start", open |-> FALSE,
     resultsStr |-> Undefined, timestampStr |-> Undefined, fault |-> "",
     resp |-> NoCacheResponse]

NoBody == [results |-> Undefined, timestamp |-> Undefined]

\* getRedis(): null when REDIS_URL is unset or the connection fails
\* (both caught inside getRedis); connected tells whether connect() succeeded
GetRedis(url, connected) == TruthyStr(url) /\ connected

\* the catch block of both handlers: if (redis) await redis.disconnect()
\* .catch(() => {}); closed tells whether that disconnect went through
CatchClose(open, closed) == open /\ ~closed

\* lines 20-30 and 61-69: the handler starts and asks for a connection
CacheConnect(id, F) ==
    /\ cacheReq[id].pc = "start"
    /\ \E connected \in BOOLEAN :
        /\ (~connected) \in F
        /\ IF GetRedis(env.REDIS_URL, connected)
           THEN cacheReq' = [cacheReq EXCEPT ![id].open = TRUE,
                    ![id].pc = IF cacheReq[id].kind = "GET"
                               THEN "getResults" ELSE "setResults"]
           ELSE cacheReq' = [cacheReq EXCEPT ![id].pc = "done",
                    ![id].fault = IF TruthyStr(env.REDIS_URL)
                                  THEN "connect" ELSE "",
                    ![id].resp = IF cacheReq[id].kind = "GET"
                                 THEN GetAbsent("Redis not configured")
                                 ELSE SetAnswer(FALSE)]
    /\ UNCHANGED <<actors, env, now, apiVars, store, pageVars, cronVars>>

\* variant: the catch block closes the connection and raises again
CacheCatchRethrow(id, closed) ==
    [cacheReq EXCEPT ![id].pc = "done",
        ![id].fault = cacheReq[id].pc,
        ![id].open = CatchClose(cacheReq[id].open, closed),
        ![id].resp = Raised]

\* the catch block: close the connection if there is one, answer softly
CacheCatch(id, closed) ==
    [cacheReq EXCEPT ![id].pc = "done",
        ![id].fault = cacheReq[id].pc,
        ![id].open = CatchClose(cacheReq[id].open, closed),
        ![id].resp = IF cacheReq[id].kind = "GET"
                     THEN GetAbsent("Cache error") ELSE SetAnswer(FALSE)]

\* line 32: const resultsStr = await redis.get('benchmark-results')
CacheGetResults(id, F) ==
    /\ cacheReq[id].pc = "getResults"
    /\ \E failed \in F, closed \in BOOLEAN :
        /\ (~closed) \in F
        /\ IF failed
           THEN cacheReq' = CacheCatch(id, closed)
           ELSE cacheReq' = [cacheReq EXCEPT ![id].pc = "getTimestamp",
                                ![id].resultsStr = store.results]
    /\ UNCHANGED <<actors, env, now, apiVars, store, pageVars, cronVars>>

\* line 33: const timestampStr = await redis.get('benchmark-timestamp')
CacheGetTimestamp(id, F) ==
    /\ cacheReq[id].pc = "getTimestamp"
    /\ \E failed \in F, closed \in BOOLEAN :
        /\ (~closed) \in F
        /\ IF failed
           THEN cacheReq' = CacheCatch(id, closed)
           ELSE cacheReq' = [cacheReq EXCEPT ![id].pc = "disconnect",
                                ![id].timestampStr = store.timestamp]
    /\ UNCHANGED <<actors, env, now, apiVars, store, pageVars, cronVars>>

\* lines 37-48: the answer of GET from the two strings read
GetAnswer(resultsStr, timestampStr) ==
    IF ~TruthyJson(resultsStr)
    THEN GetAbsent("No cached results yet. Run the benchmark manually.")
    ELSE GetFound(Some(JSONParse(resultsStr[1])),
                  IF TruthyStr(timestampStr)
                  THEN Some(ParseInt(timestampStr[1])) ELSE Undefined)

\* lines 35-48 and 73-75: disconnect, then answer
CacheDisconnect(id, F) ==
    /\ cacheReq[id].pc = "disconnect"
    /\ \E failed \in F, closed \in BOOLEAN :
        /\ (~closed) \in F
        /\ IF failed
           THEN cacheReq' = CacheCatch(id, closed)
           ELSE cacheReq' = [cacheReq EXCEPT ![id].pc = "done",
                    ![id].open = FALSE,
                    ![id].resp =
                        IF cacheReq[id].kind = "GET"
                        THEN GetAnswer(cacheReq[id].resultsStr,
                                       cacheReq[id].timestampStr)
                        ELSE SetAnswer(TRUE)]
    /\ UNCHANGED <<actors, env, now, apiVars, store, pageVars, cronVars>>

\* line 71: await redis.set('benchmark-results', JSON.stringify(results));
\* JSON.stringify(undefined) is undefined, which the client refuses to send
CacheSetResults(id, F) ==
    /\ cacheReq[id].pc = "setResults"
    /\ \E failed \in F, closed \in BOOLEAN :
        /\ (~closed) \in F
        /\ IF failed \/ cacheReq[id].body.results = Undefined
           THEN /\ cacheReq' = CacheCatch(id, closed)
                /\ UNCHANGED store
           ELSE /\ cacheReq' = [cacheReq EXCEPT ![id].pc = "setTimestamp"]
                /\ store' = [store EXCEPT !.results =
                        Some(JSONStringify(cacheReq[id].body.results[1]))]
    /\ UNCHANGED <<actors, env, now, apiVars, pageVars, cronVars>>

\* line 72: await redis.set('benchmark-timestamp', timestamp.toString());
\* undefined.toString() throws
CacheSetTimestamp(id, F) ==
    /\ cacheReq[id].pc = "setTimestamp"
    /\ \E failed \in F, closed \in BOOLEAN :
        /\ (~closed) \in F
        /\ IF failed \/ cacheReq[id].body.timestamp = Undefined
           THEN /\ cacheReq' = CacheCatch(id, closed)
                /\ UNCHANGED store
           ELSE /\ cacheReq' = [cacheReq EXCEPT ![id].pc = "disconnect"]
                /\ store' = [store EXCEPT !.timestamp =
                        Some(NumToString(cacheReq[id].body.timestamp[1]))]
    /\ UNCHANGED <<actors, env, now, apiVars, pageVars, cronVars>>

----------------------------------------------------------------------------
(* Configuration: lib/benchmarks.ts *)

Model(id, provider, category) ==
    [id |-> id, provider |-> provider, category |-> category]

MODELS ==
    << Model("openai/gpt-oss-120b", "groq", "code"),
       Model("meta-llama/llama-4-scout-17b-16e-instruct", "groq", "code"),
       Model("llama-3.3-70b-versatile", "groq", "code"),
       Model("Qwen/Qwen3-Coder-30B-A3B-Instruct", "huggingface", "code"),
       Model("deepseek-ai/DeepSeek-V3", "huggingface", "code"),
       Model("openai/gpt-oss-120b", "groq", "ascii"),
       Model("meta-llama/llama-4-scout-17b-16e-instruct", "groq", "ascii"),
       Model("llama-3.3-70b-versatile", "groq", "ascii"),
       Model("Qwen/Qwen3-Coder-30B-A3B-Instruct", "huggingface", "ascii"),
       Model("deepseek-ai/DeepSeek-V3", "huggingface", "ascii"),
       Model("google/imagen-4", "replicate", "image"),
       Model("black-forest-labs/flux-kontext-pro", "replicate", "image"),
       Model("black-forest-labs/flux-1.1-pro", "replicate", "image") >>

\* the categories of BENCHMARKS, in order
BENCHMARKS == <<"code", "ascii", "image">>

Prefix(seq, n) == SubSeq(seq, 1, IF Len(seq) < n THEN Len(seq) ELSE n)

\* MODELS.filter(m => m.category === category), cut to the model's bound
getModelsByCategory(category) ==
    Prefix(SelectSeq(MODELS, LAMBDA m : m.category = category),
           MaxModelsPerCategory)

\* variant: the key names the provider, not the model
KeyByProvider(category, m) == category \o "-" \o m.provider

\* `${category}-${model.id}`
Key(category, m) == category \o "-" \o m.id

Range(seq) == { seq[i] : i \in 1..Len(seq) }

KeysOf(category, models) == { Key(category, models[i]) : i \in 1..Len(models) }

AllKeys ==
    UNION { KeysOf(BENCHMARKS[c], getModelsByCategory(BENCHMARKS[c])) :
            c \in 1..Len(BENCHMARKS) }

\* the prompt text of a category (public/prompts/*.txt)
PromptOf(category) == "prompt for " \o category

----------------------------------------------------------------------------
(* The dashboard page: loadCachedResults and runBenchmark *)

\* what a store operation may do: succeed, or also fail
Reliable == {FALSE}
Unreliable == {FALSE, TRUE}

\* a BenchmarkResult; its duration field is written and only displayed
Entry(out, ty, ts) == [output |-> out, type |-> ty, timestamp |-> ts]

\* variant: the new entries replace the map
MergeReplace(a, b) == b

\* { ...a, ...b }
Merge(a, b) ==
    [k \in DOMAIN a \cup DOMAIN b |-> IF k \in DOMAIN b THEN b[k] ELSE a[k]]

\* a with a[k] set to v
Put(a, k, v) == [x \in DOMAIN a \cup {k} |-> IF x = k THEN v ELSE a[x]]

NoRun ==
    [active |-> FALSE, tab |-> "", models |-> <<>>, password |-> "",
     timestamp |-> 0, newResults |-> <<>>, base |-> <<>>, started |-> 0]

NoProgress == [current |-> 0, total |-> 0]

\* the page as mounted: nothing loaded, no run
PageIdle ==
    /\ results = <<>>
    /\ lastUpdated = Undefined
    /\ loading = FALSE
    /\ progress = NoProgress
    /\ benchmarkPassword = ""
    /\ loaded = FALSE
    /\ run = NoRun

\* variant: the error entry reads the clock again
ErrorEntryNow(message, ts) == Entry("Error: " \o message, "text", now)

\* the catch of runModelRequest
ErrorEntry(message, ts) == Entry("Error: " \o message, "text", ts)

\* lines 271-285: the entry made from the endpoint's answer
ClientEntry(resp, ts) ==
    IF resp.status = 401 THEN ErrorEntry("Invalid password", ts)
    ELSE Entry(OrStr(resp.output, OrStr(resp.error, Some("No output")))[1],
               OrStr(resp.type, Some("text"))[1], ts)

\* the body runModelRequest posts for a model
RequestBody(tab, m, password) ==
    [provider |-> m.provider, model |-> m.id, prompt |-> PromptOf(tab),
     type |-> IF tab = "image" THEN "image" ELSE "text",
     password |-> Some(password)]

\* variant: the image tab, too, issues every request at once
FirstBatchAll(tab, models) == Len(models)

\* the requests a run issues when it starts: the first model's for image,
\* every model's otherwise
FirstBatch(tab, models) ==
    IF tab = "image" THEN 1 ELSE Len(models)

\* lines 155-172: the answer to the page's GET /api/results is consumed
LoadCachedResults ==
    /\ ~loaded
    /\ "load" \in DOMAIN cacheReq
    /\ cacheReq["load"].pc = "done"
    /\ loaded' = TRUE
    /\ LET data == cacheReq["load"].resp
       IN IF data.sent /\ data.results # Undefined
          THEN /\ results' = data.results[1]
               /\ lastUpdated' = data.timestamp
          ELSE UNCHANGED <<results, lastUpdated>>
    /\ UNCHANGED <<actors, env, now, apiVars, cacheVars, loading, progress,
                   benchmarkPassword, run, cronVars>>

\* lines 231-254 and the first requests of 299-307.  tab and selected are
\* the active tab and its selected models, typed is what the user answers
\* to the password prompt
RunBenchmark(tab, selected, typed) ==
    /\ ~loading
    /\ LET modelsToRun ==
               SelectSeq(getModelsByCategory(tab),
                         LAMBDA m : Key(tab, m) \in selected)
           password == IF tab = "image" /\ benchmarkPassword = ""
                       THEN typed ELSE benchmarkPassword
           n == FirstBatch(tab, modelsToRun)
       IN /\ Len(modelsToRun) > 0
          /\ password # "" \/ tab # "image"
          /\ benchmarkPassword' = password
          /\ loading' = TRUE
          /\ progress' = [current |-> 0, total |-> Len(modelsToRun)]
          /\ \E t \in { x \in now..(now + MaxElapse) : Elapse(x) } :
                /\ now' = t
                /\ run' = [active |-> TRUE, tab |-> tab,
                           models |-> modelsToRun, password |-> password,
                           timestamp |-> t, newResults |-> <<>>,
                           base |-> results, started |-> n]
          /\ req' = [k \in KeysOf(tab, SubSeq(modelsToRun, 1, n)) |->
                        NewRequest(RequestBody(tab,
                            CHOOSE m \in Range(modelsToRun) : Key(tab, m) = k,
                            password))]
    /\ UNCHANGED <<actors, env, upstream, cacheVars, results, lastUpdated,
                   loaded, cronVars>>

\* variant: the loop goes on only after a model that answered 200
NextRequestsStopOnError(r, k) ==
    IF r.tab = "image" /\ r.started < Len(r.models)
       /\ req[k].pc = "done" /\ req[k].resp.status = 200
    THEN LET m == r.models[r.started + 1]
         IN Put(req, Key(r.tab, m),
                NewRequest(RequestBody(r.tab, m, r.password)))
    ELSE req

\* the for loop of lines 302-304 goes on to the next model, if any
NextRequests(r, k) ==
    IF r.tab = "image" /\ r.started < Len(r.models)
    THEN LET m == r.models[r.started + 1]
         IN Put(req, Key(r.tab, m),
                NewRequest(RequestBody(r.tab, m, r.password)))
    ELSE req

NextStarted(r) ==
    IF r.tab = "image" /\ r.started < Len(r.models)
    THEN r.started + 1 ELSE r.started

\* variant: an answer of status 401 is not counted
SettleUncountedUnauthorized(k) ==
    /\ run.active
    /\ k \in DOMAIN req
    /\ req[k].pc = "done"
    /\ run' = [run EXCEPT
                 !.newResults = Put(run.newResults, k,
                                    ClientEntry(req[k].resp, run.timestamp)),
                 !.started = NextStarted(run)]
    /\ req' = [NextRequests(run, k) EXCEPT ![k].pc = "settled"]
    /\ progress' =
          IF req[k].resp.status = 401 THEN progress
          ELSE [progress EXCEPT !.current = progress.current + 1]
    /\ benchmarkPassword' =
          IF req[k].resp.status = 401 THEN "" ELSE benchmarkPassword
    /\ UNCHANGED <<actors, env, now, upstream, cacheVars, results, lastUpdated,
                   loading, loaded, cronVars>>

\* variant: the entry is shown as soon as the answer arrives
SettleShowing(k) ==
    /\ run.active
    /\ k \in DOMAIN req
    /\ req[k].pc = "done"
    /\ run' = [run EXCEPT
                 !.newResults = Put(run.newResults, k,
                                    ClientEntry(req[k].resp, run.timestamp)),
                 !.started = NextStarted(run)]
    /\ req' = [NextRequests(run, k) EXCEPT ![k].pc = "settled"]
    /\ progress' = [progress EXCEPT !.current = progress.current + 1]
    /\ benchmarkPassword' =
          IF req[k].resp.status = 401 THEN "" ELSE benchmarkPassword
    /\ results' = Put(results, k, ClientEntry(req[k].resp, run.timestamp))
    /\ UNCHANGED <<actors, env, now, upstream, cacheVars, lastUpdated,
                   loading, loaded, cronVars>>

\* lines 271-296: the answer for model key k arrives and is recorded
Settle(k) ==
    /\ run.active
    /\ k \in DOMAIN req
    /\ req[k].pc = "done"
    /\ run' = [run EXCEPT
                 !.newResults = Put(run.newResults, k,
                                    ClientEntry(req[k].resp, run.timestamp)),
                 !.started = NextStarted(run)]
    /\ req' = [NextRequests(run, k) EXCEPT ![k].pc = "settled"]
    /\ progress' = [progress EXCEPT !.current = progress.current + 1]
    /\ benchmarkPassword' =
          IF req[k].resp.status = 401 THEN "" ELSE benchmarkPassword
    /\ UNCHANGED <<actors, env, now, upstream, cacheVars, results, lastUpdated,
                   loading, loaded, cronVars>>

\* lines 260 and 286-296: the fetch to /api/benchmark fails before the
\* request reaches the handler
FetchRejected(k) ==
    /\ run.active
    /\ k \in DOMAIN req
    /\ req[k].pc = "received"
    /\ run' = [run EXCEPT
                 !.newResults = Put(run.newResults, k,
                                    ErrorEntry("Failed to fetch", run.timestamp)),
                 !.started = NextStarted(run)]
    /\ req' = [NextRequests(run, k) EXCEPT ![k].pc = "lost"]
    /\ progress' = [progress EXCEPT !.current = progress.current + 1]
    /\ UNCHANGED <<actors, env, now, upstream, cacheVars, results, lastUpdated,
                   loading, benchmarkPassword, loaded, cronVars>>

SaveId(n) == "save" \o NumToString(n)

\* every request of the run was issued and has settled: Promise.all of
\* line 307 resolves, or the for loop of lines 302-304 ends
RunSettled(r) ==
    /\ r.active
    /\ r.started = Len(r.models)
    /\ \A k \in DOMAIN req : req[k].pc \in {"settled", "lost"}

\* variant: the snapshot is sent with the time shown before the run
FinishRunStaleTimestamp ==
    /\ RunSettled(run)
    /\ LET allResults == Merge(run.base, run.newResults)
           id == SaveId(Cardinality(DOMAIN cacheReq \ {"load"}) + 1)
       IN /\ results' = allResults
          /\ lastUpdated' = Some(run.timestamp)
          /\ cacheReq' = Put(cacheReq, id,
                NewCacheRequest("POST",
                    [results |-> Some(allResults),
                     timestamp |-> IF lastUpdated = Undefined
                                   THEN Some(0) ELSE lastUpdated]))
    /\ loading' = FALSE
    /\ progress' = NoProgress
    /\ run' = NoRun
    /\ req' = <<>>
    /\ UNCHANGED <<actors, env, now, upstream, store, benchmarkPassword, loaded,
                   cronVars>>

\* variant: the run ends without clearing the loading flag
FinishRunStillLoading ==
    /\ RunSettled(run)
    /\ LET allResults == Merge(run.base, run.newResults)
           id == SaveId(Cardinality(DOMAIN cacheReq \ {"load"}) + 1)
       IN /\ results' = allResults
          /\ lastUpdated' = Some(run.timestamp)
          /\ cacheReq' = Put(cacheReq, id,
                NewCacheRequest("POST",
                    [results |-> Some(allResults),
                     timestamp |-> Some(run.timestamp)]))
    /\ loading' = TRUE
    /\ progress' = NoProgress
    /\ run' = NoRun
    /\ req' = <<>>
    /\ UNCHANGED <<actors, env, now, upstream, store, benchmarkPassword, loaded,
                   cronVars>>

\* lines 309-321: every model has settled; merge, show, save
FinishRun ==
    /\ RunSettled(run)
    /\ LET allResults == Merge(run.base, run.newResults)
           id == SaveId(Cardinality(DOMAIN cacheReq \ {"load"}) + 1)
       IN /\ results' = allResults
          /\ lastUpdated' = Some(run.timestamp)
          /\ cacheReq' = Put(cacheReq, id,
                NewCacheRequest("POST",
                    [results |-> Some(allResults),
                     timestamp |-> Some(run.timestamp)]))
    /\ loading' = FALSE
    /\ progress' = NoProgress
    /\ run' = NoRun
    /\ req' = <<>>
    /\ UNCHANGED <<actors, env, now, upstream, store, benchmarkPassword, loaded,
                   cronVars>>

----------------------------------------------------------------------------
(* The scheduled handler (Vercel cron) and its runModel *)

NoCronResponse ==
    [status |-> 0, raised |-> FALSE, timestamp |-> 0, resultsCount |-> 0]

NoCron ==
    [pc |-> "idle", open |-> FALSE, timestamp |-> 0, results |-> <<>>,
     stage |-> 0, started |-> 0, resp |-> NoCronResponse]

CronIdle ==
    /\ cron = NoCron
    /\ job = <<>>

\* authHeader !== `Bearer ${process.env.CRON_SECRET}`
CronUnauthorized(authHeader, secret) ==
    authHeader # Some("Bearer " \o Template(secret))

\* the provider call runModel makes for a model; <<>> when it has no branch
RunModelUrl(category, m) ==
    IF category = "image" /\ m.provider = "replicate"
    THEN Some(ReplicateUrl(m.id))
    ELSE CASE m.provider = "groq" -> Some("groq.chat.completions.create")
           [] m.provider = "huggingface" -> Some("hf.chatCompletion")
           [] OTHER -> Undefined

\* a runModel call right after its first provider call is issued
NewJob(category, m) ==
    [model |-> m, category |-> category, prompt |-> PromptOf(category),
     pc |-> IF RunModelUrl(category, m) = Undefined THEN "returned"
            ELSE "upstream",
     prediction |-> Undefined, sleptFrom |-> 0, delay |-> 0, retriedAt |-> 0, imageUrl |-> "",
     out |-> IF RunModelUrl(category, m) = Undefined
             THEN Throw("Unknown provider: " \o m.provider)
             ELSE Return(Undefined, "")]

JobCalls(category, models) ==
    { Call(Key(category, models[i]), 1,
           RunModelUrl(category, models[i])[1], PromptOf(category)) :
         i \in { j \in 1..Len(models) :
                    RunModelUrl(category, models[j]) # Undefined } }

\* lines 154-161 and 170-177: the entry the handler records for a call
CronEntry(outcome, category, ts) ==
    IF outcome.threw THEN ErrorEntry(outcome.message, ts)
    ELSE Entry(outcome.output[1],
               IF category = "image" THEN "image" ELSE "text", ts)

\* lines 249-267: what runModel does with the final prediction document:
\* it throws, or goes on to download imageUrl
RunModelImageUrl(o) ==
    CASE o.t = "string" -> Some(o.v[1])
      [] o.t = "array" -> IF Len(o.v) = 0 THEN Undefined ELSE Some(o.v[1])
      [] o.t = "object" -> IF TruthyStr(o.v) THEN Some(o.v[1]) ELSE Some("")
      [] OTHER -> Some("")

RunModelFinish(p) ==
    IF TruthyStr(p.error) THEN Throw(p.error[1])
    ELSE IF p.status = Some("failed") THEN Throw("Failed")
    ELSE IF OutputTruthy(p.output) /\ TruthyStr(RunModelImageUrl(p.output))
         THEN Return(RunModelImageUrl(p.output), "download")
         ELSE Throw("No output from Replicate")

\* the models the handler is running in its current stage
StageCategory(c) == BENCHMARKS[c.stage]
StageModels(c) == getModelsByCategory(StageCategory(c))

\* how many runModel calls a stage issues at once
StageBatch(category, models) ==
    IF category = "image" THEN (IF Len(models) > 0 THEN 1 ELSE 0)
    ELSE Len(models)

\* the handler's state and calls after runModel for key k settled with
\* outcome o: the entry is recorded and, in the image stage, the next
\* model's call is issued
Recorded(c, k, o) ==
    [c EXCEPT !.results = Put(c.results, k,
                              CronEntry(o, StageCategory(c), c.timestamp)),
              !.started = IF StageCategory(c) = "image"
                             /\ c.started < Len(StageModels(c))
                          THEN c.started + 1 ELSE c.started]

JobsAfter(c, j) ==
    IF StageCategory(c) = "image" /\ c.started < Len(StageModels(c))
    THEN Put(j, Key("image", StageModels(c)[c.started + 1]),
             NewJob("image", StageModels(c)[c.started + 1]))
    ELSE j

CallsAfter(c) ==
    IF StageCategory(c) = "image" /\ c.started < Len(StageModels(c))
    THEN JobCalls("image", SubSeq(StageModels(c), c.started + 1, c.started + 1))
    ELSE {}

\* runModel for key k returns or throws outcome o, its last prediction
\* document being p
JobSettle(k, o, p) ==
    IF cron.pc = "running"
    THEN /\ cron' = Recorded(cron, k, o)
         /\ job' = JobsAfter(cron, [job EXCEPT ![k].pc = "returned", ![k].out = o,
                                               ![k].prediction = Undefined,
                                               ![k].sleptFrom = 0, ![k].delay = 0,
                                               ![k].retriedAt = 0, ![k].imageUrl = ""])
         /\ upstream' = upstream \cup CallsAfter(cron)
    ELSE /\ job' = [job EXCEPT ![k].pc = "returned", ![k].out = o,
                               ![k].prediction = p]
         /\ UNCHANGED <<cron, upstream>>

\* runModel for key k has its final prediction document p: it throws, or
\* goes on to download the image
JobContinue(k, p) ==
    LET o == RunModelFinish(p)
    IN IF ~o.threw
       THEN /\ job' = [job EXCEPT ![k].pc = "download",
                                  ![k].prediction = Some(p),
                                  ![k].imageUrl = o.output[1]]
            /\ UNCHANGED <<cron, upstream>>
       ELSE JobSettle(k, o, Some(p))

\* lines 271-287: the outcomes of a text generation
RunModelOutcomes(j, W) ==
    { ChatResult(r) : r \in W.chat }

\* lines 223-228 and 272-287: the provider answers the first call
RunModelUpstream(k, W) ==
    /\ k \in DOMAIN job
    /\ job[k].pc = "upstream"
    /\ IF job[k].category = "image" /\ job[k].model.provider = "replicate"
       THEN \/ \E p \in W.replicate :
                 IF IsThrottled(p)
                 THEN /\ job' = [job EXCEPT ![k].pc = "sleeping",
                                            ![k].prediction = Some(p),
                                            ![k].sleptFrom = now,
                                            ![k].delay = RetryDelay(p)]
                      /\ UNCHANGED <<cron, upstream>>
                 ELSE JobContinue(k, p)
            \/ \E x \in W.netfail :
                 JobSettle(k, Throw(FetchFailed), job[k].prediction)
       ELSE \E o \in RunModelOutcomes(job[k], W) :
                 JobSettle(k, o, job[k].prediction)
    /\ UNCHANGED <<actors, env, now, req, cacheVars, pageVars>>

\* lines 228-245: after the wait, the request is sent once more
RunModelRetry(k) ==
    /\ k \in DOMAIN job
    /\ job[k].pc = "sleeping"
    /\ \E t \in FiringTimes(job[k].sleptFrom, job[k].delay) :
        /\ TimerFired(job[k].sleptFrom, job[k].delay, t)
        /\ now' = t
        /\ job' = [job EXCEPT ![k].pc = "retrying", ![k].retriedAt = t]
    /\ upstream' = upstream \cup
          { Call(k, Cardinality(CallsOf(k)) + 1,
                 ReplicateUrl(job[k].model.id), job[k].prompt) }
    /\ UNCHANGED <<actors, env, req, cacheVars, pageVars, cron>>

\* lines 246-267: the answer to the retry is final
RunModelRetryRespond(k, W) ==
    /\ k \in DOMAIN job
    /\ job[k].pc = "retrying"
    /\ \/ \E p \in W.replicate : JobContinue(k, p)
       \/ \E x \in W.netfail :
                 JobSettle(k, Throw(FetchFailed), job[k].prediction)
    /\ UNCHANGED <<actors, env, now, req, cacheVars, pageVars>>

\* `data:${contentType};base64,${base64}`
DataUri(contentType, bytes) ==
    "data:" \o OrStr(contentType, Some("image/jpeg"))[1] \o ";base64,"
    \o Base64(bytes)

\* lines 260-264: the image is downloaded and re-encoded
RunModelDownload(k, W) ==
    /\ k \in DOMAIN job
    /\ job[k].pc = "download"
    /\ \E o \in { Return(Some(DataUri(ct, b)), "image") :
                    ct \in W.contentTypes, b \in W.images }
                \cup { Throw(FetchFailed) : x \in W.netfail } :
          JobSettle(k, o, job[k].prediction)
    /\ UNCHANGED <<actors, env, now, req, cacheVars, pageVars>>

\* lines 108-113: the request arrives; the bearer check
CronArrive(authHeader) ==
    /\ cron.pc = "idle"
    /\ IF CronUnauthorized(authHeader, env.CRON_SECRET)
       THEN cron' = [cron EXCEPT !.pc = "done", !.resp.status = 401]
       ELSE cron' = [cron EXCEPT !.pc = "connect"]
    /\ UNCHANGED <<actors, env, now, apiVars, cacheVars, pageVars, job>>

\* the first stage with models, from stage s on; Len(BENCHMARKS) + 1 if none
RECURSIVE StageFrom(_)
StageFrom(s) ==
    IF s > Len(BENCHMARKS) THEN s
    ELSE IF Len(getModelsByCategory(BENCHMARKS[s])) > 0 THEN s
    ELSE StageFrom(s + 1)

\* the handler enters stage s: its runModel calls are issued, or, past the
\* last stage, the handler goes on to store the results
EnterStage(c, s) ==
    IF s > Len(BENCHMARKS)
    THEN /\ cron' = [c EXCEPT !.pc = "setResults", !.stage = s]
         /\ job' = <<>>
         /\ UNCHANGED upstream
    ELSE LET category == BENCHMARKS[s]
             models == getModelsByCategory(category)
             n == StageBatch(category, models)
             first == SubSeq(models, 1, n)
         IN /\ cron' = [c EXCEPT !.pc = "running", !.stage = s, !.started = n]
            /\ job' = [k \in DOMAIN job \cup KeysOf(category, first) |->
                         IF k \in KeysOf(category, first)
                         THEN NewJob(category,
                                CHOOSE m \in Range(first) : Key(category, m) = k)
                         ELSE job[k]]
            /\ upstream' = upstream \cup JobCalls(category, first)

\* lines 117-146: the connection, the timestamp, the first stage
CronConnect(F) ==
    /\ cron.pc = "connect"
    /\ \E connected \in BOOLEAN :
        /\ (~connected) \in F
        /\ IF GetRedis(env.REDIS_URL, connected)
           THEN \E t \in { x \in now..(now + MaxElapse) : Elapse(x) } :
                /\ now' = t
                /\ EnterStage([cron EXCEPT !.open = TRUE, !.timestamp = t],
                              StageFrom(1))
           ELSE /\ cron' = [cron EXCEPT !.pc = "done", !.resp.status = 500]
                /\ UNCHANGED <<job, upstream, now>>
    /\ UNCHANGED <<actors, env, req, cacheVars, pageVars>>

\* lines 144-182: every model of the stage has settled; the next stage
StageSettled(c) ==
    /\ c.pc = "running"
    /\ c.started = Len(StageModels(c))
    /\ \A k \in KeysOf(StageCategory(c), StageModels(c)) :
          k \in DOMAIN job /\ job[k].pc = "returned"

CronNextStage ==
    /\ StageSettled(cron)
    /\ EnterStage(cron, StageFrom(cron.stage + 1))
    /\ UNCHANGED <<actors, env, now, req, cacheVars, pageVars>>

\* an exception leaves the handler: nothing catches it
CronRaise == [cron EXCEPT !.pc = "done", !.resp.raised = TRUE]

\* variant: the new entries are merged into what the store holds
CronSetResultsMerging(F) ==
    /\ cron.pc = "setResults"
    /\ \E failed \in F :
        IF failed
        THEN /\ cron' = CronRaise
             /\ UNCHANGED store
        ELSE /\ cron' = [cron EXCEPT !.pc = "setTimestamp"]
             /\ store' = [store EXCEPT !.results =
                              Some(JSONStringify(Merge(
                                 IF store.results = Undefined THEN <<>>
                                 ELSE JSONParse(store.results[1]),
                                 cron.results)))]
    /\ UNCHANGED <<actors, env, now, apiVars, cacheReq, pageVars, job>>

\* line 185: await redis.set('benchmark-results', JSON.stringify(results))
CronSetResults(F) ==
    /\ cron.pc = "setResults"
    /\ \E failed \in F :
        IF failed
        THEN /\ cron' = CronRaise
             /\ UNCHANGED store
        ELSE /\ cron' = [cron EXCEPT !.pc = "setTimestamp"]
             /\ store' = [store EXCEPT !.results =
                              Some(JSONStringify(cron.results))]
    /\ UNCHANGED <<actors, env, now, apiVars, cacheReq, pageVars, job>>

\* line 186: await redis.set('benchmark-timestamp', timestamp.toString())
CronSetTimestamp(F) ==
    /\ cron.pc = "setTimestamp"
    /\ \E failed \in F :
        IF failed
        THEN /\ cron' = CronRaise
             /\ UNCHANGED store
        ELSE /\ cron' = [cron EXCEPT !.pc = "quit"]
             /\ store' = [store EXCEPT !.timestamp =
                              Some(NumToString(cron.timestamp))]
    /\ UNCHANGED <<actors, env, now, apiVars, cacheReq, pageVars, job>>

\* lines 187-195: await redis.quit(), then the summary
CronQuit(F) ==
    /\ cron.pc = "quit"
    /\ \E failed \in F :
        IF failed
        THEN cron' = CronRaise
        ELSE cron' = [cron EXCEPT !.pc = "done", !.open = FALSE,
                        !.resp = [status |-> 200, raised |-> FALSE,
                                  timestamp |-> cron.timestamp,
                                  resultsCount |->
                                      Cardinality(DOMAIN cron.results)]]
    /\ UNCHANGED <<actors, env, now, apiVars, cacheVars, pageVars, job>>

----------------------------------------------------------------------------
(* One request to POST /api/benchmark, any body, any configuration *)

Providers == {"groq", "huggingface", "openai", "together", "replicate", "other"}

Passwords == {Undefined, Some(""), Some("s3cr3t"), Some("wrong")}

Secrets == {Undefined, Some(""), Some("s3cr3t")}

ApiBodies ==
    { [provider |-> pr, model |-> "google/imagen-4", prompt |-> "a cat",
       type |-> ty, password |-> pw] :
        pr \in Providers, ty \in {"image", "text"}, pw \in Passwords }

\* the models of one call of runModel outside a scheduled run
DirectModels ==
    { Model("google/imagen-4", "replicate", "image"),
      Model("llama-3.3-70b-versatile", "groq", "code"),
      Model("deepseek-ai/DeepSeek-V3", "huggingface", "ascii"),
      Model("stabilityai/sdxl", "huggingface", "image"),
      Model("gpt-4o", "openai", "code") }

InitApi ==
    /\ env \in { [BENCHMARK_PASSWORD |-> s, CRON_SECRET |-> Undefined,
                  REDIS_URL |-> Undefined] : s \in Secrets }
    /\ now = 0
    /\ \/ /\ \E b \in ApiBodies : req = [k \in {"direct"} |-> NewRequest(b)]
          /\ job = <<>>
          /\ upstream = {}
       \/ /\ req = <<>>
          /\ \E m \in DirectModels :
                /\ job = [k \in {"direct"} |-> NewJob(m.category, m)]
                /\ upstream = { Call("direct", 1, u, PromptOf(m.category)) :
                                  u \in Range(RunModelUrl(m.category, m)) }
    /\ store = EmptyStore
    /\ cacheReq = <<>>
    /\ PageIdle
    /\ cron = NoCron
    /\ actors = {}

NextApi ==
    \/ ApiReceive("direct")
    \/ ApiUpstream("direct", FullWorld)
    \/ ApiRetry("direct")
    \/ ApiRetryRespond("direct", FullWorld)
    \/ RunModelUpstream("direct", FullWorld)
    \/ RunModelRetry("direct")
    \/ RunModelRetryRespond("direct", FullWorld)
    \/ RunModelDownload("direct", FullWorld)

SpecApi == InitApi /\ [][NextApi]_vars

----------------------------------------------------------------------------
(* The cache endpoints alone: any requests, in any interleaving *)

SnapOld == [k \in {"code-llama-3.3-70b-versatile"} |-> Entry("old", "text", 0)]
SnapA == [k \in {"code-llama-3.3-70b-versatile"} |-> Entry("A", "text", 1)]
SnapB == [k \in {"image-google/imagen-4"} |-> Entry("B", "image", 2)]

\* the state of the store after a complete write of (results, timestamp)
Written(r, t) ==
    [results |-> Some(JSONStringify(r)), timestamp |-> Some(NumToString(t))]

\* the bodies of POST /api/results: two well-formed snapshots, the empty
\* map, a snapshot of time 0, and bodies lacking a field
PostBodies ==
    { [results |-> Some(SnapA), timestamp |-> Some(1)],
      [results |-> Some(SnapB), timestamp |-> Some(2)],
      [results |-> Some(<<>>), timestamp |-> Some(10)],
      [results |-> Some(SnapB), timestamp |-> Some(0)],
      [results |-> Undefined, timestamp |-> Some(3)],
      [results |-> Some(SnapA), timestamp |-> Undefined] }

CacheRequestId(n) == "r" \o NumToString(n)

\* a request arrives at GET or POST /api/results
CacheArrive ==
    /\ Cardinality(DOMAIN cacheReq) < MaxCacheRequests
    /\ LET id == CacheRequestId(Cardinality(DOMAIN cacheReq) + 1)
       IN \E r \in {NewCacheRequest("GET", NoBody)}
                   \cup {NewCacheRequest("POST", b) : b \in PostBodies} :
            cacheReq' = [k \in DOMAIN cacheReq \cup {id} |->
                            IF k = id THEN r ELSE cacheReq[k]]
    /\ UNCHANGED <<actors, env, now, apiVars, store, pageVars, cronVars>>

\* a scheduled run that has run every model and is about to write
SnapCron == [k \in AllKeys |-> Entry("scheduled", "text", 5)]
CronStoring ==
    [NoCron EXCEPT !.pc = "setResults", !.open = TRUE, !.timestamp = 5,
                   !.results = SnapCron, !.stage = Len(BENCHMARKS) + 1]

InitCache ==
    /\ env \in { [BENCHMARK_PASSWORD |-> Undefined, CRON_SECRET |-> Undefined,
                  REDIS_URL |-> u] : u \in {Undefined, Some("redis://cache")} }
    /\ now = 0
    /\ req = <<>>
    /\ upstream = {}
    /\ store \in {EmptyStore, Written(SnapOld, 0)}
    /\ cacheReq = <<>>
    /\ PageIdle
    /\ job = <<>>
    /\ cron \in {NoCron} \cup { CronStoring : x \in Range(env.REDIS_URL) }
    /\ actors = {}

NextCache ==
    \/ CacheArrive
    \/ \E id \in DOMAIN cacheReq : CacheConnect(id, Unreliable)
    \/ \E id \in DOMAIN cacheReq : CacheGetResults(id, Unreliable)
    \/ \E id \in DOMAIN cacheReq : CacheGetTimestamp(id, Unreliable)
    \/ \E id \in DOMAIN cacheReq : CacheSetResults(id, Unreliable)
    \/ \E id \in DOMAIN cacheReq : CacheSetTimestamp(id, Unreliable)
    \/ \E id \in DOMAIN cacheReq : CacheDisconnect(id, Unreliable)
    \/ CronSetResults(Unreliable)
    \/ CronSetTimestamp(Unreliable)
    \/ CronQuit(Unreliable)

SpecCache == InitCache /\ [][NextCache]_vars

----------------------------------------------------------------------------
(* The whole system: the page with its manual runs, the provider endpoint, *)
(* the cache endpoints and the scheduled handler                           *)

\* what the providers answer in the system specification: a prediction with
\* an image, a throttled answer, an answer without output, an answer with
\* an empty list of outputs; a chat answer, a chat answer with empty content
\* and a failing chat call
RunWorld ==
    [replicate |->
        { [status |-> Some("succeeded"), detail |-> Undefined,
           retry_after |-> Undefined, error |-> Undefined,
           output |-> OutString(UrlA)],
          [status |-> Some("N429"), detail |-> Some(ThrottledDetail),
           retry_after |-> Some(1), error |-> Undefined, output |-> NoOutput],
          [status |-> Undefined, detail |-> Undefined,
           retry_after |-> Undefined, error |-> Undefined,
           output |-> NoOutput],
          [status |-> Some("succeeded"), detail |-> Undefined,
           retry_after |-> Undefined, error |-> Undefined,
           output |-> OutArray(<<>>)] },
     together |-> {}, hfimage |-> {},
     chat |-> { [failed |-> FALSE, content |-> Some("<html>clock</html>"),
                 message |-> ""],
                [failed |-> FALSE, content |-> Some(""), message |-> ""],
                [failed |-> TRUE, content |-> Undefined,
                 message |-> "429 rate limit exceeded"] },
     netfail |-> {},
     images |-> { <<137, 80>> }, contentTypes |-> { Undefined }]

\* the snapshot an earlier scheduled run left in the cache, from a time
\* when one more model was configured
PriorSnapshot ==
    [k \in AllKeys \cup {"code-retired-model"} |->
        Entry("previous output", "text", 0)]

\* The configuration and the store at the start.  A behaviour has one
\* source of requests: the dashboard page or the scheduler.  The password
\* matters to the page's requests only, and what an unconfigured store
\* holds matters to nobody.
Init ==
    /\ actors \in {{"page"}, {"scheduler"}}
    /\ env \in { [BENCHMARK_PASSWORD |-> s, CRON_SECRET |-> c,
                  REDIS_URL |-> u] :
                    s \in IF "page" \in actors
                          THEN {Undefined, Some("s3cr3t")} ELSE {Undefined},
                    c \in IF "scheduler" \in actors
                          THEN {Undefined, Some("cr0n")} ELSE {Some("cr0n")},
                    u \in {Undefined, Some("redis://cache")} }
    /\ now = 1
    /\ req = <<>>
    /\ upstream = {}
    /\ store \in IF TruthyStr(env.REDIS_URL)
                  THEN {EmptyStore, Written(PriorSnapshot, 0)}
                  ELSE {EmptyStore}
    /\ cacheReq = IF "page" \in actors
                  THEN [k \in {"load"} |-> NewCacheRequest("GET", NoBody)]
                  ELSE <<>>
    /\ PageIdle
    /\ CronIdle

Tabs == Range(BENCHMARKS)

TypedPasswords == {"s3cr3t", "wrong"}

CronHeaders == {Undefined, Some("Bearer cr0n"), Some("Bearer undefined")}

Next ==
    \/ LoadCachedResults
    \/ /\ "page" \in actors
       /\ Cardinality(DOMAIN cacheReq \ {"load"}) < MaxRuns
       /\ \E tab \in Tabs :
            \E selected \in SUBSET KeysOf(tab, getModelsByCategory(tab)) :
               \E typed \in TypedPasswords : RunBenchmark(tab, selected, typed)
    \/ \E k \in DOMAIN req : Settle(k)
    \/ \E k \in DOMAIN req : FetchRejected(k)
    \/ FinishRun
    \/ \E k \in DOMAIN req : ApiReceive(k)
    \/ \E k \in DOMAIN req : ApiUpstream(k, RunWorld)
    \/ \E k \in DOMAIN req : ApiRetry(k)
    \/ \E k \in DOMAIN req : ApiRetryRespond(k, RunWorld)
    \/ \E id \in DOMAIN cacheReq : CacheConnect(id, Reliable)
    \/ \E id \in DOMAIN cacheReq : CacheGetResults(id, Reliable)
    \/ \E id \in DOMAIN cacheReq : CacheGetTimestamp(id, Reliable)
    \/ \E id \in DOMAIN cacheReq : CacheSetResults(id, Reliable)
    \/ \E id \in DOMAIN cacheReq : CacheSetTimestamp(id, Reliable)
    \/ \E id \in DOMAIN cacheReq : CacheDisconnect(id, Reliable)
    \/ "scheduler" \in actors /\ \E h \in CronHeaders : CronArrive(h)
    \/ CronConnect(Reliable)
    \/ CronNextStage
    \/ \E k \in DOMAIN job : RunModelUpstream(k, RunWorld)
    \/ \E k \in DOMAIN job : RunModelRetry(k)
    \/ \E k \in DOMAIN job : RunModelRetryRespond(k, RunWorld)
    \/ \E k \in DOMAIN job : RunModelDownload(k, RunWorld)
    \/ CronSetResults(Reliable)
    \/ CronSetTimestamp(Reliable)
    \/ CronQuit(Reliable)

Spec == Init /\ [][Next]_vars

\* The event loop runs every callback that is ready, and a provider call
\* returns or fails: every step of a handler or of the page that stays
\* enabled is taken.  Starting a run, the scheduler's request and the loss
\* of a fetch are the environment's and are not fair.
Fairness ==
    /\ WF_vars(\E k \in DOMAIN req : Settle(k))
    /\ WF_vars(FinishRun)
    /\ WF_vars(\E k \in DOMAIN req : ApiReceive(k))
    /\ WF_vars(\E k \in DOMAIN req : ApiUpstream(k, RunWorld))
    /\ WF_vars(\E k \in DOMAIN req : ApiRetry(k))
    /\ WF_vars(\E k \in DOMAIN req : ApiRetryRespond(k, RunWorld))
    /\ WF_vars(CronConnect(Reliable))
    /\ WF_vars(CronNextStage)
    /\ WF_vars(\E k \in DOMAIN job : RunModelUpstream(k, RunWorld))
    /\ WF_vars(\E k \in DOMAIN job : RunModelRetry(k))
    /\ WF_vars(\E k \in DOMAIN job : RunModelRetryRespond(k, RunWorld))
    /\ WF_vars(\E k \in DOMAIN job : RunModelDownload(k, RunWorld))
    /\ WF_vars(CronSetResults(Reliable))
    /\ WF_vars(CronSetTimestamp(Reliable))
    /\ WF_vars(CronQuit(Reliable))

SpecLive == Init /\ [][Next]_vars /\ Fairness

\* A manual run next to a scheduled run that is about to store its results

\* what a scheduled run that read the clock at 1 has collected
MixedSnapshot == [k \in AllKeys |-> Entry("scheduled output", "text", 1)]

\* the scheduled handler after its last stage, before line 185
MixedCron ==
    [NoCron EXCEPT !.pc = "setResults", !.open = TRUE, !.timestamp = 1,
                   !.results = MixedSnapshot, !.stage = Len(BENCHMARKS) + 1]

\* what the providers answer here: an image or a throttled answer; a chat
\* answer or a failing chat call
MixedWorld ==
    [replicate |->
        { [status |-> Some("succeeded"), detail |-> Undefined,
           retry_after |-> Undefined, error |-> Undefined,
           output |-> OutString(UrlA)],
          [status |-> Some("N429"), detail |-> Some(ThrottledDetail),
           retry_after |-> Some(1), error |-> Undefined, output |-> NoOutput] },
     together |-> {}, hfimage |-> {},
     chat |-> { [failed |-> FALSE, content |-> Some("<html>clock</html>"),
                 message |-> ""],
                [failed |-> TRUE, content |-> Undefined,
                 message |-> "429 rate limit exceeded"] },
     netfail |-> {},
     images |-> { <<137, 80>> }, contentTypes |-> { Undefined }]

InitMixed ==
    /\ actors = {"page"}
    /\ env = [BENCHMARK_PASSWORD |-> Undefined, CRON_SECRET |-> Some("cr0n"),
              REDIS_URL |-> Some("redis://cache")]
    /\ now = 1
    /\ req = <<>>
    /\ upstream = {}
    /\ store \in {EmptyStore, Written(PriorSnapshot, 0)}
    /\ cacheReq = [k \in {"load"} |-> NewCacheRequest("GET", NoBody)]
    /\ PageIdle
    /\ job = <<>>
    /\ cron = MixedCron

NextMixed ==
    \/ LoadCachedResults
    \/ /\ Cardinality(DOMAIN cacheReq \ {"load"}) < MaxRuns
       /\ \E tab \in Tabs :
            \E selected \in SUBSET KeysOf(tab, getModelsByCategory(tab)) :
               \E typed \in TypedPasswords : RunBenchmark(tab, selected, typed)
    \/ \E k \in DOMAIN req : Settle(k)
    \/ \E k \in DOMAIN req : FetchRejected(k)
    \/ FinishRun
    \/ \E k \in DOMAIN req : ApiReceive(k)
    \/ \E k \in DOMAIN req : ApiUpstream(k, MixedWorld)
    \/ \E k \in DOMAIN req : ApiRetry(k)
    \/ \E k \in DOMAIN req : ApiRetryRespond(k, MixedWorld)
    \/ \E id \in DOMAIN cacheReq : CacheConnect(id, Reliable)
    \/ \E id \in DOMAIN cacheReq : CacheGetResults(id, Reliable)
    \/ \E id \in DOMAIN cacheReq : CacheGetTimestamp(id, Reliable)
    \/ \E id \in DOMAIN cacheReq : CacheSetResults(id, Reliable)
    \/ \E id \in DOMAIN cacheReq : CacheSetTimestamp(id, Reliable)
    \/ \E id \in DOMAIN cacheReq : CacheDisconnect(id, Reliable)
    \/ CronSetResults(Reliable)
    \/ CronSetTimestamp(Reliable)
    \/ CronQuit(Reliable)

SpecMixed == InitMixed /\ [][NextMixed]_vars

----------------------------------------------------------------------------
(* Properties of runs: ordering, completeness, failures *)

\* the requests of the manual run that have not settled
InFlight == { k \in DOMAIN req : req[k].pc \notin {"settled", "lost"} }

\* the runModel calls of the scheduled run's image stage
ImageJobs == { k \in DOMAIN job : job[k].category = "image" }

\* ms lists models in the order MODELS lists them
InConfigOrder(ms) ==
    \A i, j \in 1..Len(ms) :
        i < j => \E a, b \in 1..Len(MODELS) :
                    a < b /\ MODELS[a] = ms[i] /\ MODELS[b] = ms[j]

\* the keys a manual run was asked for
RequestedKeys(r) == { r.tab \o "-" \o r.models[i].id : i \in 1..Len(r.models) }

\* the keys a scheduled run is asked for: every configured model
ScheduledKeys ==
    UNION { { BENCHMARKS[c] \o "-" \o m.id :
                m \in Range(getModelsByCategory(BENCHMARKS[c])) } :
            c \in 1..Len(BENCHMARKS) }

\* C1: in an image run, manual or scheduled, the invocations started so far
\* are a prefix of the requested models in configuration order, every one of
\* them but the last has settled, and at most one is in flight.
C1_ImageInvocationsNeverOverlap ==
    /\ (run.active /\ run.tab = "image") =>
          /\ InConfigOrder(run.models)
          /\ Cardinality(InFlight) <= 1
          /\ \E n \in 0..Len(run.models) :
                /\ DOMAIN req = KeysOf("image", SubSeq(run.models, 1, n))
                /\ \A i \in 1..(n - 1) :
                      req[Key("image", run.models[i])].pc \in {"settled", "lost"}
    /\ (cron.pc = "running" /\ StageCategory(cron) = "image") =>
          /\ InConfigOrder(StageModels(cron))
          /\ Cardinality({ k \in ImageJobs : job[k].pc # "returned" }) <= 1
          /\ \E n \in 0..Len(StageModels(cron)) :
                /\ ImageJobs = KeysOf("image", SubSeq(StageModels(cron), 1, n))
                /\ \A i \in 1..(n - 1) :
                      job[Key("image", StageModels(cron)[i])].pc = "returned"

\* an image run whose first model settled after a throttle wait and a retry
\* and whose second model is now with the provider
C1_Witness ==
    /\ run.active /\ run.tab = "image" /\ Len(run.models) = 2
    /\ req[Key("image", run.models[1])].pc = "settled"
    /\ \E c \in CallsOf(Key("image", run.models[1])) : c.n = 2
    /\ Key("image", run.models[2]) \in DOMAIN req
    /\ req[Key("image", run.models[2])].pc = "upstream"

\* C2: when every invocation of a run has settled, the run's entries are
\* exactly one per requested model, keyed <category>-<modelId>, whichever
\* models failed and in whatever order they settled.
C2_OneEntryPerRequestedModel ==
    /\ run.active => DOMAIN run.newResults \subseteq RequestedKeys(run)
    /\ RunSettled(run) =>
          /\ DOMAIN run.newResults = RequestedKeys(run)
          /\ Cardinality(DOMAIN run.newResults) = Len(run.models)
    /\ cron.pc \in {"setResults", "setTimestamp", "quit"} =>
          /\ DOMAIN cron.results = ScheduledKeys
          /\ Cardinality(DOMAIN cron.results) =
                Len(getModelsByCategory("code"))
                + Len(getModelsByCategory("ascii"))
                + Len(getModelsByCategory("image"))

\* a parallel run that has settled with one model answered and one failed
C2_Witness ==
    /\ RunSettled(run) /\ run.tab = "code" /\ Len(run.models) = 2
    /\ req[Key("code", run.models[1])].resp.status = 200
    /\ req[Key("code", run.models[2])].resp.status = 500

\* C3: a failed invocation is recorded as an entry of kind text whose
\* payload starts with "Error: ", on the manual path (the endpoint answered
\* with an error status, or the fetch failed) and on the scheduled path
\* (runModel threw).
C3_FailureYieldsErrorEntry ==
    /\ \A k \in DOMAIN req :
          (req[k].pc = "lost"
             \/ (req[k].pc = "settled" /\ req[k].resp.status # 200)) =>
                /\ k \in DOMAIN run.newResults
                /\ run.newResults[k].type = "text"
                /\ StartsWith(run.newResults[k].output, "Error: ")
    /\ cron.pc = "running" =>
          \A k \in DOMAIN job :
              (job[k].pc = "returned" /\ job[k].out.threw) =>
                /\ k \in DOMAIN cron.results
                /\ cron.results[k].type = "text"
                /\ StartsWith(cron.results[k].output, "Error: ")

----------------------------------------------------------------------------
(* Properties of the password check *)

\* a secret is configured
SecretConfigured == env.BENCHMARK_PASSWORD \notin {Undefined, Some("")}

\* the body b is an image request whose password is not the secret
Mismatch(b) ==
    /\ b.type = "image"
    /\ SecretConfigured
    /\ b.password # env.BENCHMARK_PASSWORD

\* the manual run under way is an image run whose password is not the secret
RejectedRun ==
    /\ run.active /\ run.tab = "image"
    /\ SecretConfigured
    /\ Some(run.password) # env.BENCHMARK_PASSWORD

\* every request of the rejected run was answered 401
AnsweredUnauthorized ==
    /\ RejectedRun
    /\ \A k \in RequestedKeys(run) :
          k \in DOMAIN req /\ req[k].pc = "settled" /\ req[k].resp.status = 401

\* C4: for an image run with a password that is not the configured secret,
\* no provider call is made for any model of the run.
C4_RejectedBeforeAnyProviderCall ==
    /\ \A k \in DOMAIN req : Mismatch(req[k].body) => CallsOf(k) = {}
    /\ RejectedRun => \A k \in RequestedKeys(run) : CallsOf(k) = {}

\* a rejected image run over two models, both answered 401
C4_Witness ==
    /\ RunSettled(run) /\ Len(run.models) = 2
    /\ AnsweredUnauthorized

\* C5: the step that ends an image run rejected as unauthorized changes
\* neither the results map nor its timestamp, and sends nothing to the cache.
C5_RejectedRunLeavesSnapshot ==
    [][ (AnsweredUnauthorized /\ ~run'.active) =>
            /\ results' = results
            /\ lastUpdated' = lastUpdated
            /\ cacheReq' = cacheReq ]_vars

\* C6: a request the endpoint has answered got 401 exactly if its type is
\* image, a secret is configured and its password is not the secret.
C6_Status401IffMismatch ==
    \A k \in DOMAIN req :
        req[k].pc = "done" =>
            (req[k].resp.status = 401 <=> Mismatch(req[k].body))

\* an image request with a wrong password, answered 401
C6_Witness ==
    \E k \in DOMAIN req :
        /\ req[k].pc = "done" /\ req[k].resp.status = 401
        /\ req[k].body.type = "image" /\ req[k].body.password = Some("wrong")

\* C7: a manual run starts from the results map R it sees; the step that
\* ends it leaves this run's entry on every requested key, R's entry on
\* every other key of R and no further key, and sends that map to the cache.
C7_RunMergesIntoStartingMap ==
    [][ /\ (~run.active /\ run'.active) => run'.base = results
        /\ (run.active /\ ~run'.active) =>
              /\ DOMAIN results' = DOMAIN run.base \cup RequestedKeys(run)
              /\ \A k \in RequestedKeys(run) : results'[k] = run.newResults[k]
              /\ \A k \in DOMAIN run.base \ RequestedKeys(run) :
                    results'[k] = run.base[k]
              /\ \E id \in DOMAIN cacheReq' \ DOMAIN cacheReq :
                    /\ cacheReq'[id].kind = "POST"
                    /\ cacheReq'[id].body.results = Some(results') ]_vars

\* a run over part of the models has ended on top of a loaded snapshot: the
\* results hold entries of both and were sent to the cache
C7_Witness ==
    /\ ~run.active
    /\ \E id \in DOMAIN cacheReq :
          /\ cacheReq[id].kind = "POST"
          /\ cacheReq[id].body.results = Some(results)
    /\ \E k1, k2 \in DOMAIN results :
          /\ results[k1] = PriorSnapshot[k1]
          /\ results[k2].timestamp > 0

----------------------------------------------------------------------------
(* Properties of the cache endpoints *)

\* C8: GET and POST /api/results never raise, and when the store is not
\* configured or a step failed, GET answers {results: null, timestamp: null}
\* with a message and POST answers {success: true, persisted: false}.
C8_CacheNeverRaises ==
    \A id \in DOMAIN cacheReq :
        LET r == cacheReq[id]
        IN /\ ~r.resp.raised
           /\ r.pc = "done" => r.resp.sent
           /\ (r.pc = "done" /\ (~TruthyStr(env.REDIS_URL) \/ r.fault # "")) =>
                 IF r.kind = "GET"
                 THEN /\ r.resp.results = Undefined
                      /\ r.resp.timestamp = Undefined
                      /\ r.resp.message # ""
                 ELSE r.resp.success /\ ~r.resp.persisted

\* a GET whose second read failed and a POST whose second write failed,
\* both answered
C8_Witness ==
    \E g, p \in DOMAIN cacheReq :
        /\ cacheReq[g].kind = "GET" /\ cacheReq[g].pc = "done"
        /\ cacheReq[g].fault = "getTimestamp"
        /\ cacheReq[p].kind = "POST" /\ cacheReq[p].pc = "done"
        /\ cacheReq[p].fault = "setTimestamp"

\* the snapshots a complete write can leave in the store
Snapshots ==
    { EmptyStore, Written(SnapOld, 0), Written(SnapCron, 5) }
    \cup { Written(b.results[1], b.timestamp[1]) :
             b \in { x \in PostBodies : x.results # Undefined
                                        /\ x.timestamp # Undefined } }

\* no step of a cache request or of the scheduled run failed
NoFaults ==
    /\ \A id \in DOMAIN cacheReq :
          /\ cacheReq[id].fault = ""
          /\ cacheReq[id].kind = "POST" =>
                /\ cacheReq[id].body.results # Undefined
                /\ cacheReq[id].body.timestamp # Undefined
    /\ ~cron.resp.raised

\* every writer and reader has finished
Quiescent ==
    /\ \A id \in DOMAIN cacheReq : cacheReq[id].pc = "done"
    /\ cron.pc \in {"idle", "done"}

\* C10: without failures, a GET that finds results returns the results and
\* the timestamp of one and the same write, and once every request has
\* finished the store holds the results and the timestamp of one write.
C10_WrittenAndReadTogether ==
    NoFaults =>
        /\ \A id \in DOMAIN cacheReq :
              (cacheReq[id].kind = "GET" /\ cacheReq[id].pc = "done"
               /\ cacheReq[id].resp.results # Undefined) =>
                    \E w \in Snapshots \ {EmptyStore} :
                        /\ w.results = Some(JSONStringify(cacheReq[id].resp.results[1]))
                        /\ cacheReq[id].resp.timestamp =
                              Some(ParseInt(w.timestamp[1]))
        /\ Quiescent => store \in Snapshots

----------------------------------------------------------------------------
(* Properties of the Replicate retry *)

\* the first answer was throttled: the invocation has waited or is waiting
WasThrottled(r) == r.delay > 0

\* the last answer received is a throttled or a failed one
LastAnswerBad(r) ==
    \/ r.prediction = Undefined
    \/ /\ r.prediction # Undefined
       /\ LET p == r.prediction[1]
          IN \/ p.status = Some("N429")
             \/ (p.detail # Undefined /\ Includes(p.detail[1], "throttled"))
             \/ TruthyStr(p.error)
             \/ p.status = Some("failed")

\* the calls of invocation k with state r follow the retry discipline
RetryDiscipline(k, r) ==
    LET first == { c \in CallsOf(k) : c.n = 1 }
        second == { c \in CallsOf(k) : c.n = 2 }
    IN /\ CallsOf(k) = first \cup second
       /\ Cardinality(first) <= 1 /\ Cardinality(second) <= 1
       /\ second # {} =>
             /\ WasThrottled(r)
             /\ \A c2 \in second : \E c1 \in first :
                   c2.url = c1.url /\ c2.prompt = c1.prompt
             /\ r.retriedAt >= r.sleptFrom + r.delay
             /\ r.pc # "sleeping"
       /\ (WasThrottled(r) /\ r.pc # "sleeping") => second # {}
       /\ ~WasThrottled(r) => second = {}

\* C9: a Replicate image invocation whose first answer is throttled makes
\* exactly one more call, with the same arguments and not before the wait
\* is over; if the answer to that call is throttled or failed the invocation
\* ends with an error; no invocation makes a third call.  It holds for the
\* endpoint and for runModel.
C9_SingleRetryThenFinal ==
    /\ \A k \in DOMAIN req :
          /\ RetryDiscipline(k, req[k])
          /\ (req[k].pc = "done" /\ WasThrottled(req[k])
                /\ LastAnswerBad(req[k])) =>
                    /\ req[k].resp.status = 500
                    /\ req[k].resp.error # Undefined
    /\ \A k \in DOMAIN job :
          /\ RetryDiscipline(k, job[k])
          /\ (job[k].pc = "returned" /\ WasThrottled(job[k])
                /\ LastAnswerBad(job[k])) => job[k].out.threw

\* the endpoint answered 500 after a throttled first answer, a wait, one
\* retry and a second throttled answer
C9_Witness ==
    \E k \in DOMAIN req :
        /\ req[k].pc = "done" /\ req[k].resp.status = 500
        /\ Cardinality(CallsOf(k)) = 2
        /\ req[k].retriedAt > req[k].sleptFrom
        /\ req[k].prediction # Undefined
        /\ req[k].prediction[1].status = Some("N429")

----------------------------------------------------------------------------
(* Properties of timestamps, visibility and progress *)

\* C11: a run reads the clock once, when it starts; every entry it produces
\* carries that reading, and so do lastUpdated, the body sent to the cache
\* and the timestamp key written for the run, manual or scheduled.
C11_OneTimestampPerRun ==
    [][ /\ (~run.active /\ run'.active) =>
              run'.timestamp = now' /\ run'.newResults = <<>>
        /\ (run.active /\ run'.active) => run'.timestamp = run.timestamp
        /\ run'.active =>
              \A k \in DOMAIN run'.newResults :
                  run'.newResults[k].timestamp = run'.timestamp
        /\ (run.active /\ ~run'.active) =>
              /\ lastUpdated' = Some(run.timestamp)
              /\ \A k \in RequestedKeys(run) :
                    results'[k].timestamp = run.timestamp
              /\ \A id \in DOMAIN cacheReq' \ DOMAIN cacheReq :
                    cacheReq'[id].body.timestamp = Some(run.timestamp)
        /\ \A id \in DOMAIN cacheReq :
              (cacheReq[id].pc = "setTimestamp"
                 /\ cacheReq'[id].pc = "disconnect") =>
                    /\ store'.timestamp # Undefined
                    /\ Some(ParseInt(store'.timestamp[1])) =
                          cacheReq[id].body.timestamp
        /\ (cron.pc = "connect" /\ cron'.pc = "running") =>
              cron'.timestamp = now' /\ cron'.results = <<>>
        /\ (cron.pc = "running" /\ cron'.pc # "done") =>
              /\ cron'.timestamp = cron.timestamp
              /\ \A k \in DOMAIN cron'.results :
                    cron'.results[k].timestamp = cron.timestamp
        /\ (cron.pc = "setTimestamp" /\ cron'.pc = "quit") =>
              /\ store'.timestamp # Undefined
              /\ ParseInt(store'.timestamp[1]) = cron.timestamp
        /\ (cron.pc = "quit" /\ cron'.pc = "done" /\ ~cron'.resp.raised) =>
              cron'.resp.timestamp = cron.timestamp ]_vars

\* an image run has settled with a successful and a failed entry after the
\* clock moved on during a throttle wait
C11_Witness ==
    /\ RunSettled(run) /\ Len(run.models) = 2
    /\ now > run.timestamp
    /\ \E k1, k2 \in DOMAIN run.newResults :
          /\ run.newResults[k1].type = "image"
          /\ StartsWith(run.newResults[k2].output, "Error: ")
          /\ run.newResults[k1].timestamp = run.newResults[k2].timestamp


\* C12: while a manual run is under way the results map and lastUpdated
\* change only when the cached snapshot is loaded; the run ends only when
\* every requested model has settled, and only that step shows its entries
\* and sends them to the cache; the store is written only from the body of
\* such a request or, in a scheduled run, after every model has returned.
C12_EntriesAppearAtRunEnd ==
    [][ /\ (run.active /\ run'.active) =>
              \/ results' = results /\ lastUpdated' = lastUpdated
              \/ ~loaded /\ loaded'
        /\ (run.active /\ run'.active) => DOMAIN cacheReq' = DOMAIN cacheReq
        /\ (run.active /\ ~run'.active) =>
              /\ \A k \in DOMAIN req : req[k].pc \in {"settled", "lost"}
              /\ DOMAIN run.newResults = RequestedKeys(run)
              /\ \A k \in RequestedKeys(run) : results'[k] = run.newResults[k]
        /\ \A id \in DOMAIN cacheReq' \ DOMAIN cacheReq :
              /\ run.active /\ ~run'.active
              /\ cacheReq'[id].body.results = Some(results')
        /\ store' # store =>
              \/ \E id \in DOMAIN cacheReq :
                    /\ cacheReq[id].kind = "POST"
                    /\ cacheReq[id].pc \in {"setResults", "setTimestamp"}
                    /\ store' \in
                         { [store EXCEPT !.results = Some(JSONStringify(
                                            cacheReq[id].body.results[1]))],
                           [store EXCEPT !.timestamp = Some(NumToString(
                                            cacheReq[id].body.timestamp[1]))] }
              \/ /\ cron.pc \in {"setResults", "setTimestamp"}
                 /\ \A k \in ScheduledKeys : k \in DOMAIN cron.results ]_vars

\* a run is under way, one of its models has settled and another has not,
\* and the results map shows nothing of the run
C12_Witness ==
    /\ run.active /\ DOMAIN run.newResults # {}
    /\ InFlight # {}
    /\ \A k \in DOMAIN run.newResults : k \notin DOMAIN results
    /\ store.results = Undefined


\* C13: during a run the counter shows total = number of requested models
\* and current = number of invocations that have settled, by an answer or
\* by a failure; so it is 0 when the run starts, stays within 0..total, does
\* not move when a request is issued, and equals total once the last one
\* has settled. Outside a run it is 0 of 0.
C13_ProgressCountsSettled ==
    IF run.active
    THEN /\ progress.total = Len(run.models)
         /\ progress.current =
               Cardinality({ k \in DOMAIN req : req[k].pc \in {"settled", "lost"} })
         /\ progress.current \in 0..progress.total
         /\ RunSettled(run) => progress.current = progress.total
    ELSE progress = NoProgress

\* both models of a run have settled, one by an answer and one by a failed
\* fetch, and the counter shows 2 of 2
C13_Witness ==
    /\ RunSettled(run)
    /\ progress = [current |-> 2, total |-> 2]
    /\ \E k1, k2 \in DOMAIN req :
          /\ req[k1].pc = "settled" /\ req[k1].resp.status = 200
          /\ req[k2].pc = "lost"


\* C14: an answer of status 401 does not count against progress: during a
\* run the counter is the number of invocations that settled otherwise.
\* The code increments the counter after the try/catch of lines 259-294,
\* so the state below is reached and this formula does not hold.
C14_RejectedNotCounted ==
    run.active =>
       progress.current =
          Cardinality({ k \in DOMAIN req :
                           \/ req[k].pc = "lost"
                           \/ req[k].pc = "settled" /\ req[k].resp.status # 401 })


\* C15: a run gives its results whatever the cache does. Manual: the step
\* that ends a run shows the merged map, and no step of the POST to the
\* cache, answered or failed, changes what is shown. Scheduled: an
\* authorized trigger that has answered has run every configured model and
\* answered 200 without an exception, even with no store configured.
\* The scheduled handler answers 500 before running any model when
\* getRedis() gives null (lines 117-120), so this formula does not hold.
C15_RunIndependentOfCache ==
    [][ /\ (run.active /\ ~run'.active) =>
              results' = Merge(run.base, run.newResults)
        /\ \A id \in DOMAIN cacheReq :
              (cacheReq[id].kind = "POST" /\ cacheReq'[id] # cacheReq[id]) =>
                  results' = results
        /\ (cron'.pc = "done" /\ cron'.resp.status # 401) =>
              /\ cron'.resp.status = 200
              /\ ~cron'.resp.raised
              /\ DOMAIN cron'.results = ScheduledKeys ]_vars


\* the request carried the configured secret as its bearer token
CronAuthorized(authHeader, secret) ==
    secret # Undefined /\ authHeader = Some("Bearer " \o secret[1])

\* C16: a scheduled request that does not carry 'Bearer ' followed by the
\* configured secret is answered 401 at once: no provider is called and the
\* store is not written. With no secret configured no request passes.
\* The code compares with `Bearer ${process.env.CRON_SECRET}`, which is
\* 'Bearer undefined' when the secret is unset, so this formula does not hold.
C16_NoRunWithoutBearer ==
    [][ (cron.pc = "idle" /\ cron'.pc # "idle") =>
          \E h \in CronHeaders :
             /\ CronArrive(h)
             /\ \/ CronAuthorized(h, env.CRON_SECRET)
                \/ /\ cron'.pc = "done" /\ cron'.resp.status = 401
                   /\ upstream' = upstream /\ store' = store /\ job' = job ]_vars


\* C17: an authorized scheduled run whose store is configured answers 200;
\* by then a provider was called for every configured model of every
\* category, the store holds exactly the run's map, one key per configured
\* model and nothing of what it held before, and resultsCount is the number
\* of configured models.
C17_ScheduledRunReplacesCache ==
    (cron.pc = "done" /\ cron.resp.status # 401 /\ TruthyStr(env.REDIS_URL)) =>
        /\ cron.resp.status = 200
        /\ \A k \in ScheduledKeys : \E c \in upstream : c.id = k
        /\ store.results = Some(JSONStringify(cron.results))
        /\ DOMAIN JSONParse(store.results[1]) = ScheduledKeys
        /\ \A k \in ScheduledKeys :
              JSONParse(store.results[1])[k].timestamp = cron.timestamp
        /\ cron.resp.resultsCount = Cardinality(ScheduledKeys)

\* a scheduled run has answered 200 for six models, one of them an image and
\* one a failure, and the store holds its timestamp
C17_Witness ==
    /\ cron.pc = "done" /\ cron.resp.status = 200
    /\ cron.resp.resultsCount = 6
    /\ store.timestamp = Some(NumToString(cron.timestamp))
    /\ \E k1, k2 \in DOMAIN cron.results :
          /\ cron.results[k1].type = "image"
          /\ StartsWith(cron.results[k2].output, "Error: ")


\* the entries recorded so far: by the run under way, in the page's map and
\* by the scheduled run
RecordedEntries ==
    { run.newResults[k] : k \in DOMAIN run.newResults }
    \cup { results[k] : k \in DOMAIN results }
    \cup { cron.results[k] : k \in DOMAIN cron.results }

\* C18: no recorded entry has a remote URL as its payload: an image that a
\* provider returned as a URL is recorded as a data URI. The scheduled path
\* downloads and re-encodes (runModel, lines 258-265); POST /api/benchmark
\* returns prediction.output as it came (line 145) and the page records it,
\* so this formula does not hold.
C18_RemoteUrlNeverStored ==
    \A e \in RecordedEntries : ~StartsWith(e.output, "https://")


\* the prediction carries no error and nothing usable as an image: no
\* output, an empty array, or an object without a url
NoUsableOutput(p) ==
    /\ ~TruthyStr(p.error)
    /\ p.status # Some("failed")
    /\ \/ p.output.t = "absent"
       \/ p.output.t = "array" /\ Len(p.output.v) = 0
       \/ p.output.t = "object" /\ ~TruthyStr(p.output.v)

\* C19: an image invocation whose final prediction has no usable output is
\* recorded as a text entry, and no image entry has an empty or placeholder
\* payload. For an empty array the endpoint returns {type: 'image'} with
\* output undefined (lines 112-113 and 145) and the page records
\* 'No output' of type image, so this formula does not hold.
C19_NoOutputIsTextError ==
    /\ \A e \in RecordedEntries :
          e.type = "image" => e.output \notin {"", "No output"}
    /\ \A k \in DOMAIN req :
          (/\ req[k].pc = "settled"
           /\ req[k].prediction # Undefined
           /\ NoUsableOutput(req[k].prediction[1])) =>
              run.newResults[k].type = "text"


\* C20: a chat invocation answered with empty content is recorded as a text
\* entry whose payload is the empty string, and no text entry holds the
\* placeholder. The scheduled path records '' (runModel, lines 271-287);
\* the page records data.output || data.error || 'No output' (line 281),
\* and '' is falsy, so this formula does not hold.
C20_EmptyContentIsEmptyText ==
    /\ \A k \in DOMAIN req :
          (/\ req[k].pc = "settled"
           /\ req[k].body.type = "text"
           /\ req[k].resp.status = 200
           /\ req[k].resp.output = Some("")) =>
              run.newResults[k] = Entry("", "text", run.timestamp)
    /\ \A e \in RecordedEntries :
          e.type = "text" => e.output # "No output"


----------------------------------------------------------------------------
(* Properties of merging, termination, the cache and the retry delay *)

\* the entry the page makes of what became of the request for key k
OutcomeEntry(k) ==
    IF req[k].pc = "lost" THEN ErrorEntry("Failed to fetch", run.timestamp)
    ELSE ClientEntry(req[k].resp, run.timestamp)

\* C21: in a parallel run (code, ascii) the requested models have distinct
\* keys; a step records at most one new entry, under the key of the request
\* that settled, and never touches an entry already recorded; and the map
\* shown when the run ends is the starting map overwritten, key by key, with
\* the entry of each model's own outcome, whatever the order of completion.
\* (An entry's duration is part of its invocation's outcome.)
C21_ParallelMergeOrderIndependent ==
    [][ (run.active /\ run.tab # "image") =>
          /\ \A i, j \in 1..Len(run.models) :
                i # j => Key(run.tab, run.models[i]) # Key(run.tab, run.models[j])
          /\ run'.active =>
                /\ \A k \in DOMAIN run.newResults :
                      /\ k \in DOMAIN run'.newResults
                      /\ run'.newResults[k] = run.newResults[k]
                /\ \A k \in DOMAIN run'.newResults \ DOMAIN run.newResults :
                      /\ k \in InFlight
                      /\ DOMAIN run'.newResults = DOMAIN run.newResults \cup {k}
          /\ ~run'.active =>
                results' = Merge(run.base,
                                 [k \in RequestedKeys(run) |-> OutcomeEntry(k)])
      ]_vars

\* in a parallel run of two models the second has settled, with an answer,
\* while the first is still in flight
C21_Witness ==
    /\ run.active /\ run.tab = "code" /\ Len(run.models) = 2
    /\ Key(run.tab, run.models[1]) \in InFlight
    /\ Key(run.tab, run.models[2]) \in DOMAIN run.newResults
    /\ req[Key(run.tab, run.models[2])].pc = "settled"


C23_PersistKeepsOtherEntries ==
    [][ \A id \in DOMAIN cacheReq :
          (/\ cacheReq[id].kind = "POST"
           /\ cacheReq[id].pc = "setResults"
           /\ store.results # Undefined
           /\ store'.results # store.results) =>
              LET old == JSONParse(store.results[1])
                  new == JSONParse(store'.results[1])
                  ts == cacheReq[id].body.timestamp[1]
              IN \A k \in DOMAIN old :
                    /\ k \in DOMAIN new
                    /\ new[k] = old[k] \/ new[k].timestamp = ts ]_vars


\* the wait the claim gives for a throttled answer p, in seconds
ClaimedDelay(p) ==
    IF p.retry_after = Undefined THEN DefaultRetryAfter + 1
    ELSE p.retry_after[1] + 1

\* C24: while a call waits before its retry, the wait is retry_after + 1
\* seconds when the throttled answer carried a retry_after, and 11 seconds
\* when it carried none; and the retry is not sent before the wait is over.
\* The code takes prediction.retry_after || 10, and 0 is falsy, so for
\* retry_after = 0 it waits 11 seconds and this formula does not hold.
C24_RetryWait ==
    /\ \A k \in DOMAIN req :
          /\ req[k].pc = "sleeping" =>
                req[k].delay = ClaimedDelay(req[k].prediction[1])
          /\ req[k].retriedAt # 0 =>
                req[k].retriedAt >= req[k].sleptFrom + req[k].delay
    /\ \A k \in DOMAIN job :
          /\ job[k].pc = "sleeping" =>
                job[k].delay = ClaimedDelay(job[k].prediction[1])
          /\ job[k].retriedAt # 0 =>
                job[k].retriedAt >= job[k].sleptFrom + job[k].delay


\* the store holds what the POST p asked to write
HoldsBodyOf(p) ==
    /\ p \in DOMAIN cacheReq
    /\ cacheReq[p].kind = "POST"
    /\ cacheReq[p].body.results # Undefined
    /\ cacheReq[p].body.timestamp # Undefined
    /\ store = Written(cacheReq[p].body.results[1],
                       cacheReq[p].body.timestamp[1])

\* the POST p has answered persisted: true, the store holds what it wrote,
\* the scheduled handler is not writing, and the request g has not arrived
SetThenGet(p, g) ==
    /\ HoldsBodyOf(p)
    /\ cacheReq[p].pc = "done"
    /\ cacheReq[p].resp.persisted
    /\ cron.pc \in {"idle", "done"}
    /\ g \notin DOMAIN cacheReq

\* the GET g has answered without a fault while the store still holds what
\* p wrote: the answer is p's results map and p's timestamp
GetReturnsSet(p, g) ==
    (/\ HoldsBodyOf(p)
     /\ g \in DOMAIN cacheReq
     /\ cacheReq[g].kind = "GET" /\ cacheReq[g].pc = "done"
     /\ cacheReq[g].fault = "") =>
        cacheReq[g].resp = GetFound(cacheReq[p].body.results,
                                    cacheReq[p].body.timestamp)

\* C25: once a POST {results, timestamp} has answered persisted: true, a GET
\* that arrives afterwards and reads with the store unchanged answers with
\* exactly that results map and that timestamp; the empty map and the
\* timestamp 0 included.
C25_SetThenGetRoundTrip ==
    \A p, g \in { CacheRequestId(n) : n \in 1..MaxCacheRequests } :
        [](SetThenGet(p, g) => [](GetReturnsSet(p, g)))

\* a GET has answered the timestamp 10 and the empty map after a POST of
\* them had answered persisted: true
C25_Witness ==
    \E p, g \in DOMAIN cacheReq :
        /\ cacheReq[p].kind = "POST" /\ cacheReq[p].resp.persisted
        /\ cacheReq[p].body = [results |-> Some(<<>>), timestamp |-> Some(10)]
        /\ cacheReq[g].kind = "GET" /\ cacheReq[g].pc = "done"
        /\ cacheReq[g].resp = GetFound(Some(<<>>), Some(10))


\* C26: a POST that answers persisted: false has written neither key. The
\* handler writes the results key on leaving "setResults" and the timestamp
\* key on leaving "setTimestamp", so the answer persisted: false may only
\* be given from a point before the first write.
\* The handler writes the results key before it evaluates timestamp
\* .toString() (lines 71-72): when that throws or the second write fails,
\* the results key is already replaced, so this formula does not hold.
C26_NotPersistedLeavesCache ==
    [][ \A id \in DOMAIN cacheReq :
          (/\ cacheReq[id].kind = "POST"
           /\ cacheReq[id].pc # "done"
           /\ cacheReq'[id].pc = "done"
           /\ ~cacheReq'[id].resp.persisted) =>
              cacheReq[id].pc \in {"start", "setResults"} ]_vars


\* C27: a cache operation that has returned has closed its connection: no
\* GET or POST of /api/results and no scheduled request that is done holds
\* an open connection.
\* The scheduled handler calls redis.quit() only after both writes
\* (line 187) and has no try/finally: when a write rejects the exception
\* leaves the handler with the connection open, so this formula does not
\* hold.
C27_ConnectionsClosed ==
    /\ \A id \in DOMAIN cacheReq :
          cacheReq[id].pc = "done" => ~cacheReq[id].open
    /\ cron.pc = "done" => ~cron.open


\* C28: in every snapshot sent to the cache, by the POST that ends a manual
\* run or by the scheduled handler, no entry is younger than the snapshot:
\* each entry's timestamp is at most the timestamp written with the map.
\* The entries a run merges in come from an earlier load or run, and the
\* clock does not go back.
C28_EntriesNotYoungerThanSnapshot ==
    /\ \A id \in DOMAIN cacheReq :
          (/\ cacheReq[id].kind = "POST"
           /\ cacheReq[id].body.results # Undefined
           /\ cacheReq[id].body.timestamp # Undefined) =>
              \A k \in DOMAIN cacheReq[id].body.results[1] :
                  cacheReq[id].body.results[1][k].timestamp
                      <= cacheReq[id].body.timestamp[1]
    /\ \A k \in DOMAIN cron.results :
          cron.results[k].timestamp <= cron.timestamp

\* the snapshot of a manual run started at 2 holds an entry of that run next
\* to an entry of the scheduled run of time 1, which the page had loaded
C28_Witness ==
    \E id \in DOMAIN cacheReq :
        /\ cacheReq[id].kind = "POST"
        /\ cacheReq[id].body.timestamp = Some(2)
        /\ \E k1, k2 \in DOMAIN cacheReq[id].body.results[1] :
              /\ cacheReq[id].body.results[1][k1] =
                    Entry("scheduled output", "text", 1)
              /\ cacheReq[id].body.results[1][k2].timestamp = 2

====
